---- MODULE Spec2Model ----
(***************************************************************************)
(* Receipt OCR pipeline: EnhancedReceiptScanner.scan_receipt               *)
(* (src/enhanced_scanner.py) and EnhancedReceiptExtractor.extract_data     *)
(* (src/enhanced_extractor.py).                                            *)
(*                                                                         *)
(* SpecExtract one call of extract_data, statement by statement, on a text  *)
(*             and an answer of the date parser fixed in InitExtract.      *)
(*                                                                         *)
(* Spec        one scanner object scanning one image, once in each mode.   *)
(*             The image and the behaviour of the libraries on it (what    *)
(*             decodes, which call raises, what each OCR call returns) are *)
(*             fixed in Init; every environment departs from the nominal   *)
(*             run (nothing raises, every OCR call returns the default     *)
(*             outcome) in at most one place.                              *)
(***************************************************************************)
EXTENDS Integers, Sequences, FiniteSets, TLC

(***************************************************************************)
(* Bounds of the model.                                                    *)
(***************************************************************************)
\* decoded images are 1..MaxDim pixels high and wide
MaxDim == 2
\* the texts given to extract_data are the probe texts and at most MaxTokens
\* words of the vocabulary, joined by spaces
MaxTokens == 3

(***************************************************************************)
(* Values.                                                                 *)
(***************************************************************************)
\* Python's None, and a value that is not None
None == << >>
Some(x) == <<x>>
Val(o) == o[1]

\* a local variable: the value v bound in the body Op
Let(v, Op(_)) == Op(v)

\* Texts are sequences of one-character strings.
EmptyText == << >>
OCR_FAILED == <<"O", "C", "R", "_", "F", "A", "I", "L", "E", "D">>

\* The confidences of the OCR calls of the scanner's environments, in
\* hundredths (1.0 is 100).
ConfLevels == {0, 50}

\* The texts an OCR call returns in the scanner's environments.
OcrTexts == {EmptyText, <<"t", "o", "t", "a", "l", " ", "1", "2">>}

(***************************************************************************)
(* Characters.                                                             *)
(***************************************************************************)
UpperSeq ==
    <<"A", "B", "C", "D", "E", "F", "G", "H", "I", "J", "K", "L", "M",
      "N", "O", "P", "Q", "R", "S", "T", "U", "V", "W", "X", "Y", "Z">>

LowerSeq ==
    <<"a", "b", "c", "d", "e", "f", "g", "h", "i", "j", "k", "l", "m",
      "n", "o", "p", "q", "r", "s", "t", "u", "v", "w", "x", "y", "z">>

DigitSeq == <<"0", "1", "2", "3", "4", "5", "6", "7", "8", "9">>

SeqToSet(s) == {s[i] : i \in 1..Len(s)}

UpperCh == SeqToSet(UpperSeq)
LowerCh == SeqToSet(LowerSeq)
\* \d
DigitCh == SeqToSet(DigitSeq)
\* \s
SpaceCh == {" ", "\n", "\t"}
\* \w
WordCh == UpperCh \cup LowerCh \cup DigitCh \cup {"_"}

LowerMap == [c \in UpperCh |-> LowerSeq[CHOOSE i \in 1..Len(UpperSeq) : UpperSeq[i] = c]]
UpperMap == [c \in LowerCh |-> UpperSeq[CHOOSE i \in 1..Len(LowerSeq) : LowerSeq[i] = c]]
DigitVal == [c \in DigitCh |-> (CHOOSE i \in 1..Len(DigitSeq) : DigitSeq[i] = c) - 1]

\* str.lower() and str.upper()
LowerChar(c) == IF c \in UpperCh THEN LowerMap[c] ELSE c
UpperChar(c) == IF c \in LowerCh THEN UpperMap[c] ELSE c
Lower(s) == [i \in 1..Len(s) |-> LowerChar(s[i])]
Upper(s) == [i \in 1..Len(s) |-> UpperChar(s[i])]

(***************************************************************************)
(* Regular expressions, matched as Python's re matches them: leftmost,     *)
(* alternatives and repetitions tried in priority order.  A position is    *)
(* the number of characters before it.                                     *)
(***************************************************************************)
\* one character of a set; with ci, compared ignoring case
Set(S) == [t |-> "set", s |-> S, ci |-> FALSE]
SetI(S) == [t |-> "set", s |-> S, ci |-> TRUE]
\* one character outside a set
NotSet(S) == [t |-> "nset", s |-> S]
\* a literal string
Lit(cs) == [t |-> "lit", cs |-> cs, ci |-> FALSE]
LitI(cs) == [t |-> "lit", cs |-> cs, ci |-> TRUE]
\* r1 r2 ... rn
Cat(rs) == [t |-> "cat", rs |-> rs]
\* r1 | r2 | ... | rn
Alt(rs) == [t |-> "alt", rs |-> rs]
\* r{lo,hi}, greedy or lazy; hi = -1 is unbounded
Rep(r, lo, hi) == [t |-> "rep", r |-> r, lo |-> lo, hi |-> hi, greedy |-> TRUE]
LazyRep(r, lo, hi) == [t |-> "rep", r |-> r, lo |-> lo, hi |-> hi, greedy |-> FALSE]
Star(r) == Rep(r, 0, -1)
Plus(r) == Rep(r, 1, -1)
Opt(r) == Rep(r, 0, 1)
LazyPlus(r) == LazyRep(r, 1, -1)
\* ^ and $, without and with re.MULTILINE, and \b
Bol == [t |-> "bol"]
Eol == [t |-> "eol"]
BolM == [t |-> "bolm"]
EolM == [t |-> "eolm"]
WordB == [t |-> "wordb"]

\* ss[lo] \o ... \o ss[hi]
RECURSIVE Concat(_, _, _)
Concat(ss, lo, hi) ==
    IF lo > hi THEN << >>
    ELSE IF lo = hi THEN ss[lo]
    ELSE Concat(ss, lo, (lo + hi) \div 2) \o Concat(ss, (lo + hi) \div 2 + 1, hi)

\* s without the later repetitions of its elements
Dedupe(s) ==
    Let(SelectSeq([i \in 1..Len(s) |-> i], LAMBDA i : \A j \in 1..(i - 1) : s[j] # s[i]),
        LAMBDA keep : [k \in 1..Len(keep) |-> s[keep[k]]])

LitAt(cs, ci, s, i) ==
    /\ i + Len(cs) <= Len(s)
    /\ \A k \in 1..Len(cs) :
          IF ci THEN LowerChar(s[i + k]) = LowerChar(cs[k]) ELSE s[i + k] = cs[k]

InSet(S, ci, c) == IF ci THEN LowerChar(c) \in S \/ UpperChar(c) \in S ELSE c \in S

IsWordAt(s, i) == i >= 1 /\ i <= Len(s) /\ s[i] \in WordCh

\* the positions where a match of r that starts at i may end, in priority order
RECURSIVE Ends(_, _, _)
RECURSIVE EndsCat(_, _, _, _)
RECURSIVE EndsAlt(_, _, _, _)
RECURSIVE EndsRep(_, _, _, _)
Ends(r, s, i) ==
    CASE r.t = "set" -> IF i < Len(s) /\ InSet(r.s, r.ci, s[i + 1]) THEN <<i + 1>> ELSE << >>
      [] r.t = "nset" -> IF i < Len(s) /\ s[i + 1] \notin r.s THEN <<i + 1>> ELSE << >>
      [] r.t = "lit" -> IF LitAt(r.cs, r.ci, s, i) THEN <<i + Len(r.cs)>> ELSE << >>
      [] r.t = "cat" -> EndsCat(r.rs, 1, s, <<i>>)
      [] r.t = "alt" -> Dedupe(EndsAlt(r.rs, 1, s, i))
      [] r.t = "rep" -> EndsRep(r, s, i, 0)
      [] r.t = "bol" -> IF i = 0 THEN <<i>> ELSE << >>
      [] r.t = "bolm" -> IF i = 0 \/ s[i] = "\n" THEN <<i>> ELSE << >>
      [] r.t = "eol" ->
            IF i = Len(s) \/ (i = Len(s) - 1 /\ s[Len(s)] = "\n") THEN <<i>> ELSE << >>
      [] r.t = "eolm" -> IF i = Len(s) \/ s[i + 1] = "\n" THEN <<i>> ELSE << >>
      [] r.t = "wordb" -> IF IsWordAt(s, i) # IsWordAt(s, i + 1) THEN <<i>> ELSE << >>

\* the ends of rs[k..] started at the positions of from: the positions after
\* rs[k] in the priority order of the ways to them, then the later elements
EndsCat(rs, k, s, from) ==
    IF k > Len(rs) \/ from = << >> THEN from
    ELSE EndsCat(rs, k + 1, s,
                 Dedupe(Concat([j \in 1..Len(from) |-> Ends(rs[k], s, from[j])],
                               1, Len(from))))

EndsAlt(rs, k, s, i) ==
    IF k > Len(rs) THEN << >>
    ELSE Ends(rs[k], s, i) \o EndsAlt(rs, k + 1, s, i)

\* one character of s after position i is in the class r (a set or its complement)
InClass(r, s, i) ==
    /\ i < Len(s)
    /\ IF r.t = "set" THEN InSet(r.s, r.ci, s[i + 1]) ELSE s[i + 1] \notin r.s

\* the length of the longest run of characters of the class r from position i
RunLength(r, s, i) ==
    CHOOSE n \in 0..(Len(s) - i) :
        /\ \A k \in 0..(n - 1) : InClass(r, s, i + k)
        /\ ~InClass(r, s, i + n)

\* a repetition of one character class: every length from lo to the run's
\* (or hi), the longest first if greedy
EndsRepClass(r, s, i) ==
    Let(RunLength(r.r, s, i), LAMBDA run :
    Let(IF r.hi # -1 /\ r.hi < run THEN r.hi ELSE run, LAMBDA top :
        IF top < r.lo THEN << >>
        ELSE [j \in 1..(top - r.lo + 1) |->
                 IF r.greedy THEN i + top - (j - 1) ELSE i + r.lo + (j - 1)]))

\* the ends of the repetition after n rounds, continued from each of the
\* positions from[lo..hi]
RECURSIVE EndsRepEach(_, _, _, _, _, _)
EndsRepEach(r, s, from, lo, hi, n) ==
    IF lo > hi THEN << >>
    ELSE IF lo = hi THEN (IF from[lo] = -1 THEN << >> ELSE EndsRep(r, s, from[lo], n))
    ELSE EndsRepEach(r, s, from, lo, (lo + hi) \div 2, n)
         \o EndsRepEach(r, s, from, (lo + hi) \div 2 + 1, hi, n)

\* after n repetitions of r.r, at position i
EndsRep(r, s, i, n) ==
    IF n = 0 /\ r.r.t \in {"set", "nset"} THEN EndsRepClass(r, s, i)
    ELSE Let(Ends(r.r, s, i), LAMBDA es :
         Let(IF r.hi = -1 \/ n < r.hi
             THEN [j \in 1..Len(es) |-> IF es[j] = i THEN -1 ELSE es[j]]
             ELSE << >>, LAMBDA one :
         Let(EndsRepEach(r, s, one, 1, Len(one), n + 1), LAMBDA more :
         Let(IF n >= r.lo THEN <<i>> ELSE << >>, LAMBDA stop :
             Dedupe(IF r.greedy THEN more \o stop ELSE stop \o more)))))

NoMatch == << >>

\* A way through the first parts of a pattern is the start followed by the
\* end of each part.  The ways that continue the way p by the part r:
Extend(r, s, p) ==
    Let(Ends(r, s, p[Len(p)]), LAMBDA es : [j \in 1..Len(es) |-> Append(p, es[j])])

\* of the ways ps, the first to each position
FirstTo(ps) ==
    Let(SelectSeq([i \in 1..Len(ps) |-> i],
                  LAMBDA i : \A j \in 1..(i - 1) : ps[j][Len(ps[j])] # ps[i][Len(ps[i])]),
        LAMBDA keep : [k \in 1..Len(keep) |-> ps[keep[k]]])

\* the first way, in priority order, through all the parts, of those that
\* continue the ways ps through the parts before the k-th, ps being in
\* priority order; NoMatch if there is none.  What follows a position does
\* not depend on the way to it, so that of the ways to one position only the
\* first can be the start of the first way through.
RECURSIVE MatchParts(_, _, _, _)
MatchParts(parts, k, s, ps) ==
    IF ps = << >> THEN NoMatch
    ELSE IF k > Len(parts) THEN ps[1]
    ELSE MatchParts(parts, k + 1, s,
                    FirstTo(Concat([j \in 1..Len(ps) |-> Extend(parts[k], s, ps[j])],
                                   1, Len(ps))))

\* re.match at position i: << >> if none, else <<i, e1, ..., en>>, the start
\* followed by the end of each part
MatchAt(parts, s, i) == MatchParts(parts, 1, s, <<<<i>>>>)

\* the first match that starts at one of the positions lo..hi
RECURSIVE SearchRange(_, _, _, _)
SearchRange(parts, s, lo, hi) ==
    IF lo = hi THEN MatchAt(parts, s, lo)
    ELSE Let(SearchRange(parts, s, lo, (lo + hi) \div 2),
             LAMBDA m : IF m # NoMatch THEN m
                        ELSE SearchRange(parts, s, (lo + hi) \div 2 + 1, hi))

\* re.search from position i on
SearchFrom(parts, s, i) ==
    IF i > Len(s) THEN NoMatch ELSE SearchRange(parts, s, i, Len(s))

Search(parts, s) == SearchFrom(parts, s, 0)

\* match.group(k) of a match m of s, part k being the group
Group(s, m, k) == SubSeq(s, m[k] + 1, m[k + 1])
MatchStart(m) == m[1]
MatchEnd(m) == m[Len(m)]

(***************************************************************************)
(* EnhancedReceiptExtractor (src/enhanced_extractor.py).                   *)
(***************************************************************************)
Rupee == "₹"

Digits == Plus(Set(DigitCh))
Ws0 == Star(Set(SpaceCh))
Ws1 == Plus(Set(SpaceCh))

\* re.sub(S+, c, s) for a set S of characters: every run of S becomes c
SubRuns(S, c, s) ==
    Let(SelectSeq([i \in 1..Len(s) |-> i],
                  LAMBDA i : s[i] \notin S \/ i = Len(s) \/ s[i + 1] \notin S),
        LAMBDA kept : [k \in 1..Len(kept) |-> IF s[kept[k]] \in S THEN c ELSE s[kept[k]]])

\* str.replace(a, b): every a becomes b
ReplaceAll(s, a, b) == [i \in 1..Len(s) |-> IF s[i] = a THEN b ELSE s[i]]

\* str.replace(a, b, 1): the first a becomes b
ReplaceFirst(s, a, b) ==
    [i \in 1..Len(s) |->
        IF s[i] = a /\ \A j \in 1..(i - 1) : s[j] # a THEN b ELSE s[i]]

\* (\d+),(\d{2})\b
DecimalComma == <<Digits, Lit(<<",">>), Rep(Set(DigitCh), 2, 2), WordB>>

\* re.sub(r'(\d+),(\d{2})\b', r'\1.\2', s), from position i on
RECURSIVE FixDecimals(_, _)
FixDecimals(s, i) ==
    Let(SearchFrom(DecimalComma, s, i), LAMBDA m :
        IF m = NoMatch THEN SubSeq(s, i + 1, Len(s))
        ELSE SubSeq(s, i + 1, MatchStart(m))
             \o Group(s, m, 1) \o <<".">> \o Group(s, m, 3)
             \o FixDecimals(s, MatchEnd(m)))

\* str.strip()
LStrip(s) ==
    SubSeq(s, 1 + (CHOOSE n \in 0..Len(s) :
                      /\ \A k \in 1..n : s[k] \in SpaceCh
                      /\ n = Len(s) \/ s[n + 1] \notin SpaceCh),
           Len(s))
RStrip(s) ==
    SubSeq(s, 1, Len(s) - (CHOOSE n \in 0..Len(s) :
                              /\ \A k \in 1..n : s[Len(s) + 1 - k] \in SpaceCh
                              /\ n = Len(s) \/ s[Len(s) - n] \notin SpaceCh))
Strip(s) == LStrip(RStrip(s))

\* _clean_text
clean_text(text_) ==
    Let(SubRuns(SpaceCh, " ", text_), LAMBDA t1 :
    Let(ReplaceAll(t1, "|", "I"), LAMBDA t2 :
    Let(ReplaceFirst(t2, "0", "O"), LAMBDA t3 :
    Let(ReplaceFirst(t3, "5", "S"), LAMBDA t4 :
    Let(SubRuns({Rupee, "R", "s", "."}, Rupee, t4), LAMBDA t5 :
    Let(FixDecimals(t5, 0), LAMBDA t6 :
        Strip(t6)))))))

\* str.split("\n")
RECURSIVE SplitLines(_)
SplitLines(s) ==
    IF \A i \in 1..Len(s) : s[i] # "\n" THEN <<s>>
    ELSE Let(CHOOSE i \in 1..Len(s) : s[i] = "\n" /\ \A j \in 1..(i - 1) : s[j] # "\n",
             LAMBDA k : <<SubSeq(s, 1, k - 1)>> \o SplitLines(SubSeq(s, k + 1, Len(s))))

(***************************************************************************)
(* Amounts.  A float is held as a whole number of 1/Scale; the texts of the *)
(* model carry at most FracDigits digits after a decimal separator, and    *)
(* amounts below 180000, so that no float of a run is rounded and every    *)
(* product below fits the integers of the checker.                         *)
(***************************************************************************)
RECURSIVE Pow10(_)
Pow10(n) == IF n = 0 THEN 1 ELSE 10 * Pow10(n - 1)

Scale == 100

FracDigits == CHOOSE k \in 0..9 : Pow10(k) = Scale

\* the number a string of digits writes
RECURSIVE IntOf(_)
IntOf(ds) == IF ds = << >> THEN 0 ELSE 10 * IntOf(SubSeq(ds, 1, Len(ds) - 1)) + DigitVal[ds[Len(ds)]]

\* the fraction 0.ds, in 1/Scale
FracOf(ds) ==
    Let(SubSeq(ds, 1, IF Len(ds) < FracDigits THEN Len(ds) ELSE FracDigits),
        LAMBDA kept : IntOf(kept) * Pow10(FracDigits - Len(kept)))

\* float(s.replace(',', '.')) for s matching \d+(?:[.,]\d+)?
ParseFloat(s) ==
    IF \A i \in 1..Len(s) : s[i] \in DigitCh
    THEN IntOf(s) * Scale
    ELSE Let(CHOOSE i \in 1..Len(s) : s[i] \notin DigitCh,
             LAMBDA k : IntOf(SubSeq(s, 1, k - 1)) * Scale + FracOf(SubSeq(s, k + 1, Len(s))))

Abs(x) == IF x < 0 THEN -x ELSE x

\* (\d+(?:[.,]\d+)?)
Amount == Cat(<<Digits, Opt(Cat(<<Set({".", ","}), Digits>>))>>)
\* (\d+(?:\.\d+)?)
Decimal == Cat(<<Digits, Opt(Cat(<<Lit(<<".">>), Digits>>))>>)
\* (?:₹|Rs\.?)?
Currency == Opt(Alt(<<Lit(<<Rupee>>), Cat(<<Lit(<<"R", "s">>), Opt(Lit(<<".">>))>>)>>))
\* [:\-]?
ColonDash == Opt(Set({":", "-"}))
\* \s*[:\-]?\s*(?:₹|Rs\.?)?\s*(\d+(?:[.,]\d+)?): the tail of every labelled amount
LabelledAmount == <<Ws0, ColonDash, Ws0, Currency, Ws0, Amount>>

\* total_patterns, in priority order; the amount is the last part of each
total_patterns ==
    << <<Opt(Cat(<<Lit(<<"g", "r", "a", "n", "d">>), Ws1>>)), Lit(<<"t", "o", "t", "a", "l">>), Ws0, Opt(Lit(<<"a", "m", "o", "u", "n", "t">>))>>
          \o LabelledAmount,
       <<Opt(Cat(<<Lit(<<"n", "e", "t">>), Ws1>>)), Lit(<<"a", "m", "o", "u", "n", "t">>), Ws0,
         Opt(Alt(<<Lit(<<"p", "a", "y", "a", "b", "l", "e">>), Lit(<<"d", "u", "e">>)>>))>> \o LabelledAmount,
       <<Opt(Cat(<<Lit(<<"f", "i", "n", "a", "l">>), Ws1>>)), Lit(<<"t", "o", "t", "a", "l">>)>> \o LabelledAmount,
       <<Opt(Cat(<<Lit(<<"b", "i", "l", "l">>), Ws1>>)), Lit(<<"a", "m", "o", "u", "n", "t">>)>> \o LabelledAmount,
       <<Opt(Cat(<<Lit(<<"y", "o", "u">>), Ws1>>)), Lit(<<"p", "a", "y">>)>> \o LabelledAmount,
       <<Lit(<<"b", "a", "l", "a", "n", "c", "e">>)>> \o LabelledAmount >>

\* the last group of a match
LastGroup(s, m) == Group(s, m, Len(m) - 1)

MinTotal == 1
MaxTotal == 100000
MinFallbackTotal == 10

\* the inner loop of the labelled search: the first pattern from k on that
\* matches the line with an amount in range
RECURSIVE TotalInLine(_, _)
TotalInLine(line_lower, k) ==
    IF k > Len(total_patterns) THEN None
    ELSE Let(Search(total_patterns[k], line_lower), LAMBDA m :
             IF m = NoMatch THEN TotalInLine(line_lower, k + 1)
             ELSE Let(ParseFloat(LastGroup(line_lower, m)), LAMBDA amount :
                      IF MinTotal * Scale <= amount /\ amount <= MaxTotal * Scale
                      THEN Some(amount)
                      ELSE TotalInLine(line_lower, k + 1)))

\* the outer loop: lines[1..n] searched from the last to the first
RECURSIVE LabelledTotal(_, _)
LabelledTotal(lines, n) ==
    IF n = 0 THEN None
    ELSE Let(TotalInLine(Lower(lines[n]), 1),
             LAMBDA t : IF t # None THEN t ELSE LabelledTotal(lines, n - 1))

\* re.findall of a pattern whose last part is its only group, from position i on
RECURSIVE FindAll(_, _, _)
FindAll(parts, s, i) ==
    Let(SearchFrom(parts, s, i), LAMBDA m :
        IF m = NoMatch THEN << >>
        ELSE <<LastGroup(s, m)>>
             \o (IF MatchEnd(m) > MatchStart(m) THEN FindAll(parts, s, MatchEnd(m))
                 ELSE FindAll(parts, s, MatchEnd(m) + 1)))

\* (?:₹|Rs\.?)?\s*(\d+(?:[.,]\d+)?)
AnyAmount == <<Currency, Ws0, Amount>>

\* the first amount of strs[k..] within the fallback range
RECURSIVE FirstInRange(_, _)
FirstInRange(strs, k) ==
    IF k > Len(strs) THEN None
    ELSE Let(ParseFloat(strs[k]), LAMBDA amount :
             IF MinFallbackTotal * Scale <= amount /\ amount <= MaxTotal * Scale
             THEN Some(amount)
             ELSE FirstInRange(strs, k + 1))

\* the fallback: lines[lo..n] searched from the last to the first
RECURSIVE FallbackTotal(_, _, _)
FallbackTotal(lines, lo, n) ==
    IF n < lo THEN None
    ELSE Let(FirstInRange(FindAll(AnyAmount, lines[n], 0), 1),
             LAMBDA t : IF t # None THEN t ELSE FallbackTotal(lines, lo, n - 1))

FallbackLines == 10

\* _extract_total_enhanced
extract_total_enhanced(lines) ==
    Let(LabelledTotal(lines, Len(lines)), LAMBDA t :
        IF t # None THEN t
        ELSE FallbackTotal(lines,
                           IF Len(lines) > FallbackLines
                           THEN Len(lines) - FallbackLines + 1 ELSE 1,
                           Len(lines)))

\* cgst|sgst|igst \s*[@:]\s*(\d+(?:\.\d+)?)\s*%\s*[:\-]?\s*(?:₹|Rs\.?)?\s*(\d+(?:[.,]\d+)?)
GstLine(name) ==
    <<Lit(name), Ws0, Set({"@", ":"}), Ws0, Decimal, Ws0, Lit(<<"%">>)>> \o LabelledAmount

\* (?:total\s+)?(?:tax|gst)\s*[:\-]?\s*(?:₹|Rs\.?)?\s*(\d+(?:[.,]\d+)?)
TotalTaxLine ==
    <<Opt(Cat(<<Lit(<<"t", "o", "t", "a", "l">>), Ws1>>)), Alt(<<Lit(<<"t", "a", "x">>), Lit(<<"g", "s", "t">>)>>)>> \o LabelledAmount

\* the amount a breakdown pattern adds on a line, 0 if it does not match
GstAmount(name, line_lower) ==
    Let(Search(GstLine(name), line_lower),
        LAMBDA m : IF m = NoMatch THEN 0 ELSE ParseFloat(LastGroup(line_lower, m)))

GstFound(name, line_lower) == Search(GstLine(name), line_lower) # NoMatch

\* the loop of _extract_tax_enhanced from line k on, with its two accumulators
RECURSIVE TaxLoop(_, _, _, _)
TaxLoop(lines, k, total_tax, found_tax) ==
    IF k > Len(lines) THEN (IF found_tax THEN Some(total_tax) ELSE None)
    ELSE Let(Lower(lines[k]), LAMBDA line_lower :
         Let(total_tax + GstAmount(<<"c", "g", "s", "t">>, line_lower)
             + GstAmount(<<"s", "g", "s", "t">>, line_lower)
             + GstAmount(<<"i", "g", "s", "t">>, line_lower), LAMBDA sum :
         Let(\/ found_tax
             \/ GstFound(<<"c", "g", "s", "t">>, line_lower)
             \/ GstFound(<<"s", "g", "s", "t">>, line_lower)
             \/ GstFound(<<"i", "g", "s", "t">>, line_lower), LAMBDA found :
         Let(Search(TotalTaxLine, line_lower), LAMBDA m :
             IF m # NoMatch /\ ~found
             THEN Some(ParseFloat(LastGroup(line_lower, m)))
             ELSE TaxLoop(lines, k + 1, sum, found)))))

\* _extract_tax_enhanced
extract_tax_enhanced(lines) == TaxLoop(lines, 1, 0, FALSE)

\* subtotal_patterns, in order
subtotal_patterns ==
    << <<Lit(<<"s", "u", "b">>), Ws0, Lit(<<"t", "o", "t", "a", "l">>)>> \o LabelledAmount,
       <<Lit(<<"s", "u", "b", "t", "o", "t", "a", "l">>)>> \o LabelledAmount,
       <<Opt(Cat(<<Lit(<<"b", "e", "f", "o", "r", "e">>), Ws1>>)), Lit(<<"t", "a", "x">>)>> \o LabelledAmount >>

\* the explicit subtotal of lines[k..]: patterns[p..] on line k, then the next lines
RECURSIVE ExplicitSubtotal(_, _, _)
ExplicitSubtotal(lines, k, p) ==
    IF k > Len(lines) THEN None
    ELSE IF p > Len(subtotal_patterns) THEN ExplicitSubtotal(lines, k + 1, 1)
    ELSE Let(Lower(lines[k]), LAMBDA line_lower :
         Let(Search(subtotal_patterns[p], line_lower), LAMBDA m :
             IF m # NoMatch THEN Some(ParseFloat(LastGroup(line_lower, m)))
             ELSE ExplicitSubtotal(lines, k, p + 1)))

\* _extract_subtotal_enhanced
extract_subtotal_enhanced(lines, total, tax) ==
    Let(ExplicitSubtotal(lines, 1, 1), LAMBDA s :
        IF s # None THEN s
        ELSE IF total # None /\ tax # None THEN Some(Val(total) - Val(tax))
        ELSE None)

\* _extract_amounts_enhanced
extract_amounts_enhanced(text_) ==
    Let(SplitLines(text_), LAMBDA lines :
    Let(extract_total_enhanced(lines), LAMBDA total :
    Let(extract_tax_enhanced(lines), LAMBDA tax :
        [total |-> total, tax |-> tax,
         subtotal |-> extract_subtotal_enhanced(lines, total, tax)])))

(***************************************************************************)
(* Items.                                                                  *)
(***************************************************************************)
\* sub in s
Contains(s, sub) == \E i \in 0..(Len(s) - Len(sub)) : SubSeq(s, i + 1, i + Len(sub)) = sub

ContainsAny(s, subs) == \E sub \in subs : Contains(s, sub)

\* (?:cgst|sgst|igst|tax)\s*[@%]
TaxMark == <<Alt(<<Lit(<<"c", "g", "s", "t">>), Lit(<<"s", "g", "s", "t">>), Lit(<<"i", "g", "s", "t">>), Lit(<<"t", "a", "x">>)>>), Ws0, Set({"@", "%"})>>

\* ^[\d\s\-:.]+$
OnlyNumeric == <<Plus(Set(DigitCh \cup SpaceCh \cup {"-", ":", "."})), Eol>>

\* _is_non_item_line
is_non_item_line(line) ==
    LET line_lower == Lower(line)
    IN \/ Search(TaxMark, line_lower) # NoMatch
       \/ ContainsAny(line_lower,
                      {<<"h", "s", "n">>, <<"p", "a", "r", "t", "i", "c", "u", "l", "a", "r", "s">>, <<"d", "e", "s", "c", "r", "i", "p", "t", "i", "o", "n">>, <<"q", "t", "y">>, <<"r", "a", "t", "e">>, <<"a", "m", "o", "u", "n", "t">>})
       \/ ContainsAny(line_lower, {<<"t", "o", "t", "a", "l">>, <<"s", "u", "b", "t", "o", "t", "a", "l">>, <<"d", "i", "s", "c", "o", "u", "n", "t">>})
       \/ MatchAt(OnlyNumeric, line, 0) # NoMatch

\* [\w\s\-/&]+?
ItemName == LazyPlus(Set(WordCh \cup SpaceCh \cup {"-", "/", "&"}))

\* pattern1: (?:\d+)\s+(name)\s+(qty)\s+(rate)\s+(amount)
pattern1 == <<Digits, Ws1, ItemName, Ws1, Decimal, Ws1, Decimal, Ws1, Decimal>>
\* pattern2: ^(name)\s+(qty)\s+(rate)\s+(amount)$
pattern2 == <<Bol, ItemName, Ws1, Decimal, Ws1, Decimal, Ws1, Decimal, Eol>>
\* pattern3: ^(name)\s+(amount)$
pattern3 == <<Bol, ItemName, Ws1, Decimal, Eol>>

Item(n, q, u, t) == [name |-> n, quantity |-> q, unit_price |-> u, total_price |-> t]

\* abs(qty * rate - amount) < max(1.0, amount * 0.1), on amounts in 1/Scale.
\* With p = qty * rate in 1/Scale^2, d and r are the whole and the broken part
\* of p / Scale - amount; a product beyond the checker's integers is beyond
\* every amount of the model's texts.
QtyRateAgree(qty, rate, amount) ==
    IF qty # 0 /\ rate > 2147483647 \div qty THEN FALSE
    ELSE LET p == qty * rate
             d == (p \div Scale) - amount
             r == p % Scale
             \* |p / Scale - amount| < Scale, that is below 1.0
             belowOne == Abs(d) <= Scale + 1 /\ Abs(d * Scale + r) < Scale * Scale
             \* |p / Scale - amount| < amount / 10
             e == 10 * Abs(d) - amount
             belowTenth ==
                 IF d >= 0
                 THEN \/ amount - 10 * d >= 10
                      \/ amount - 10 * d > 0 /\ 10 * r < (amount - 10 * d) * Scale
                 ELSE \/ e < 0
                      \/ e < 10 /\ e * Scale < 10 * r
         IN belowOne \/ belowTenth

\* pattern1 on the line: the item, if quantity and rate agree with the amount
ItemByPattern1(line) ==
    Let(Search(pattern1, line), LAMBDA m :
        IF m = NoMatch THEN None
        ELSE Let(ParseFloat(Group(line, m, 5)), LAMBDA qty :
             Let(ParseFloat(Group(line, m, 7)), LAMBDA rate :
             Let(ParseFloat(Group(line, m, 9)), LAMBDA amount :
                 IF QtyRateAgree(qty, rate, amount)
                 THEN Some(Item(Strip(Group(line, m, 3)), qty, rate, amount))
                 ELSE None))))

\* pattern2 on the stripped line: the item, if the name has more than 2 characters
ItemByPattern2(stripped) ==
    Let(Search(pattern2, stripped), LAMBDA m :
        IF m = NoMatch THEN None
        ELSE Let(Strip(Group(stripped, m, 2)), LAMBDA name :
                 IF Len(name) > 2
                 THEN Some(Item(name, ParseFloat(Group(stripped, m, 4)),
                                ParseFloat(Group(stripped, m, 6)),
                                ParseFloat(Group(stripped, m, 8))))
                 ELSE None))

\* pattern3 on the stripped line: the item of quantity 1.0
ItemByPattern3(stripped) ==
    Let(Search(pattern3, stripped), LAMBDA m :
        IF m = NoMatch THEN None
        ELSE Let(Strip(Group(stripped, m, 2)), LAMBDA name :
             Let(ParseFloat(Group(stripped, m, 4)), LAMBDA amount :
                 IF Len(name) > 2 THEN Some(Item(name, Scale, amount, amount)) ELSE None)))

\* _parse_item_line_enhanced: None, or the item the first accepted pattern gives
parse_item_line_enhanced(line) ==
    IF is_non_item_line(line) THEN None
    ELSE Let(ItemByPattern1(line), LAMBDA item1 :
             IF item1 # None THEN item1
             ELSE Let(ItemByPattern2(Strip(line)), LAMBDA item2 :
                      IF item2 # None THEN item2 ELSE ItemByPattern3(Strip(line))))

\* header_keywords
header_keywords ==
    {<<"i", "t", "e", "m">>, <<"d", "e", "s", "c", "r", "i", "p", "t", "i", "o", "n">>, <<"p", "a", "r", "t", "i", "c", "u", "l", "a", "r", "s">>, <<"q", "t", "y">>, <<"r", "a", "t", "e">>, <<"a", "m", "o", "u", "n", "t">>, <<"h", "s", "n">>}

\* (?:sub)?total\s*[:\-]
SectionEnd == <<Opt(Lit(<<"s", "u", "b">>)), Lit(<<"t", "o", "t", "a", "l">>), Ws0, Set({":", "-"})>>

\* the loop of _find_item_section from line index i (counted from 0) on
RECURSIVE FindSection(_, _, _)
FindSection(lines, i, start_idx) ==
    IF i >= Len(lines) THEN <<start_idx, -1>>
    ELSE LET line_lower == Lower(lines[i + 1])
             header_count == Cardinality({k \in header_keywords : Contains(line_lower, k)})
         IN IF start_idx = -1 /\ header_count >= 2 THEN FindSection(lines, i + 1, i + 1)
            ELSE IF start_idx = -1 /\ ContainsAny(line_lower, {<<"s", ".", "n", "o">>, <<"s", "r", ".", "n", "o">>, <<"s", "l", ".", "n", "o">>})
            THEN FindSection(lines, i + 1, i + 1)
            ELSE IF /\ start_idx >= 0
                    /\ ContainsAny(line_lower,
                          {<<"s", "u", "b", "t", "o", "t", "a", "l">>, <<"t", "o", "t", "a", "l">>, <<"t", "a", "x">>, <<"d", "i", "s", "c", "o", "u", "n", "t">>, <<"a", "m", "o", "u", "n", "t", " ", "p", "a", "y", "a", "b", "l", "e">>})
                    /\ Search(SectionEnd, line_lower) # NoMatch
            THEN <<start_idx, i>>
            ELSE FindSection(lines, i + 1, start_idx)

\* _find_item_section: start and end, counted from 0
find_item_section(lines) ==
    Let(FindSection(lines, 0, -1),
        LAMBDA se : <<se[1], IF se[2] > 0 THEN se[2] ELSE Len(lines)>>)

\* the items of lines[i..j-1] (counted from 0), blank lines skipped
RECURSIVE SectionItems(_, _, _)
SectionItems(lines, i, j) ==
    IF i >= j THEN << >>
    ELSE Let(Strip(lines[i + 1]), LAMBDA line :
         Let(parse_item_line_enhanced(line), LAMBDA item :
             (IF line # << >> /\ item # None THEN <<Val(item)>> ELSE << >>)
             \o SectionItems(lines, i + 1, j)))

MinItemLine == 3

\* _extract_items_fallback
RECURSIVE extract_items_fallback(_)
extract_items_fallback(lines) ==
    IF lines = << >> THEN << >>
    ELSE Let(Strip(Head(lines)), LAMBDA line :
         Let(parse_item_line_enhanced(line), LAMBDA item :
             (IF Len(line) >= MinItemLine /\ ~is_non_item_line(line) /\ item # None
              THEN <<Val(item)>> ELSE << >>)
             \o extract_items_fallback(Tail(lines))))

\* _extract_items_enhanced
extract_items_enhanced(text_) ==
    Let(SplitLines(text_), LAMBDA lines :
    Let(find_item_section(lines), LAMBDA se :
    Let(IF se[1] >= 0 /\ se[2] > se[1] THEN SectionItems(lines, se[1], se[2]) ELSE << >>,
        LAMBDA items : IF items = << >> THEN extract_items_fallback(lines) ELSE items)))

(***************************************************************************)
(* Merchant.                                                               *)
(***************************************************************************)
Take(s, n) == SubSeq(s, 1, IF Len(s) < n THEN Len(s) ELSE n)

\* known_merchants, in the order of the dictionary
known_merchants ==
    << <<<<"D", " ", "M", "A", "R", "T">>, <<"D", "-", "M", "a", "r", "t">>>>,
       <<<<"D", "M", "A", "R", "T">>, <<"D", "-", "M", "a", "r", "t">>>>,
       <<<<"A", "V", "E", "N", "U", "E", " ", "S", "U", "P", "E", "R", "M", "A", "R", "T", "S">>, <<"D", "-", "M", "a", "r", "t", " ", "(", "A", "v", "e", "n", "u", "e", " ", "S", "u", "p", "e", "r", "m", "a", "r", "t", "s", " ", "L", "t", "d", ")">>>>,
       <<<<"B", "I", "G", " ", "B", "A", "Z", "A", "A", "R">>, <<"B", "i", "g", " ", "B", "a", "z", "a", "a", "r">>>>,
       <<<<"R", "E", "L", "I", "A", "N", "C", "E">>, <<"R", "e", "l", "i", "a", "n", "c", "e", " ", "F", "r", "e", "s", "h", "/", "S", "m", "a", "r", "t">>>>,
       <<<<"M", "O", "R", "E">>, <<"M", "o", "r", "e", " ", "S", "u", "p", "e", "r", "m", "a", "r", "k", "e", "t">>>>,
       <<<<"S", "P", "E", "N", "C", "E", "R", "S">>, <<"S", "p", "e", "n", "c", "e", "r", "'", "s", " ", "R", "e", "t", "a", "i", "l">>>>,
       <<<<"F", "O", "O", "D", " ", "W", "O", "R", "L", "D">>, <<"F", "o", "o", "d", " ", "W", "o", "r", "l", "d">>>>,
       <<<<"S", "T", "A", "R", " ", "B", "A", "Z", "A", "A", "R">>, <<"S", "t", "a", "r", " ", "B", "a", "z", "a", "a", "r">>>>,
       <<<<"E", "A", "S", "Y", "D", "A", "Y">>, <<"E", "a", "s", "y", "d", "a", "y", " ", "C", "l", "u", "b">>>>,
       <<<<"H", "Y", "P", "E", "R", "C", "I", "T", "Y">>, <<"H", "y", "p", "e", "r", "C", "I", "T", "Y">>>>,
       <<<<"N", "A", "T", "U", "R", "E", "'", "S", " ", "B", "A", "S", "K", "E", "T">>, <<"N", "a", "t", "u", "r", "e", "'", "s", " ", "B", "a", "s", "k", "e", "t">>>> >>

KnownLines == 10

\* strategy 1: the first of the first lines that holds a known name, and in
\* it the first name of the dictionary
RECURSIVE KnownMerchant(_)
KnownMerchant(lines) ==
    IF lines = << >> THEN None
    ELSE LET line_upper == Strip(Upper(Head(lines)))
             hits == {k \in 1..Len(known_merchants) : Contains(line_upper, known_merchants[k][1])}
         IN IF hits # {}
            THEN Some(known_merchants[CHOOSE k \in hits : \A j \in hits : k <= j][2])
            ELSE KnownMerchant(Tail(lines))

LineStart == Alt(<<BolM, Lit(<<"\n">>)>>)
LineEnd == Alt(<<Lit(<<"\n">>), EolM>>)
Capital == SetI(UpperCh)
CapitalRun == Rep(SetI(UpperCh \cup SpaceCh \cup {"&"}), 2, 30)
CompanySuffix ==
    Opt(Alt(<<LitI(<<"L", "T", "D">>), LitI(<<"L", "I", "M", "I", "T", "E", "D">>), LitI(<<"P", "V", "T">>), LitI(<<"P", "R", "I", "V", "A", "T", "E">>),
              LitI(<<"M", "A", "R", "T">>), LitI(<<"S", "T", "O", "R", "E">>), LitI(<<"S", "H", "O", "P">>), LitI(<<"S", "U", "P", "E", "R", "M", "A", "R", "K", "E", "T">>)>>))
Retailer ==
    Alt(<<Cat(<<LitI(<<"D">>), Opt(Set(SpaceCh \cup {"-"})), LitI(<<"M", "A", "R", "T">>)>>),
          Cat(<<LitI(<<"B", "I", "G">>), Ws0, LitI(<<"B", "A", "Z", "A", "A", "R">>)>>),
          LitI(<<"R", "E", "L", "I", "A", "N", "C", "E">>),
          LitI(<<"M", "O", "R", "E">>),
          Cat(<<LitI(<<"S", "P", "E", "N", "C", "E", "R">>), Opt(Lit(<<"'">>)), LitI(<<"S">>)>>),
          Cat(<<LitI(<<"F", "O", "O", "D">>), Ws0, LitI(<<"W", "O", "R", "L", "D">>)>>)>>)

\* merchant_patterns, each with the name as its third part.  The trade mark
\* sign of the second pattern is no character of a string here, and of no
\* text of the model.
merchant_patterns ==
    << <<LineStart, Ws0, Cat(<<Capital, CapitalRun, CompanySuffix>>), Ws0, LineEnd>>,
       <<LineStart, Ws0, Cat(<<Capital, CapitalRun>>), Ws0,
         Set({"®", "©"}), Ws0, LineEnd>>,
       <<LineStart, Ws0, Retailer, Ws0, LineEnd>> >>

\* \b(?:CIN|GSTIN|PAN|TIN|FSSAI)\b
IdMark ==
    <<WordB, Alt(<<Lit(<<"C", "I", "N">>), Lit(<<"G", "S", "T", "I", "N">>), Lit(<<"P", "A", "N">>), Lit(<<"T", "I", "N">>), Lit(<<"F", "S", "S", "A", "I">>)>>), WordB>>

MinMerchant == 3
MaxMerchant == 50

\* _is_likely_not_merchant
is_likely_not_merchant(text_) ==
    \/ Search(IdMark, Upper(text_)) # NoMatch
    \/ 2 * Cardinality({i \in 1..Len(text_) : text_[i] \in DigitCh}) > Len(text_)
    \/ Len(Strip(text_)) < MinMerchant
    \/ Len(Strip(text_)) > MaxMerchant

\* strategy 2: the patterns from the k-th on
RECURSIVE PatternMerchant(_, _)
PatternMerchant(text_, k) ==
    IF k > Len(merchant_patterns) THEN None
    ELSE Let(Search(merchant_patterns[k], text_), LAMBDA m :
             IF m = NoMatch THEN PatternMerchant(text_, k + 1)
             ELSE Let(Strip(Group(text_, m, 3)), LAMBDA merchant :
                      IF Len(merchant) > 2 /\ ~is_likely_not_merchant(merchant)
                      THEN Some(merchant)
                      ELSE PatternMerchant(text_, k + 1)))

exclude_patterns ==
    {<<"C", "I", "N">>, <<"G", "S", "T", "I", "N">>, <<"P", "A", "N">>, <<"T", "I", "N">>, <<"F", "S", "S", "A", "I">>, <<"V", "A", "T">>, <<"T", "A", "X">>, <<"I", "N", "V", "O", "I", "C", "E">>, <<"R", "E", "C", "E", "I", "P", "T">>}

\* ^[\d\s\-:]+$
OnlyDigits == <<Plus(Set(DigitCh \cup SpaceCh \cup {"-", ":"})), Eol>>

MeaningfulLines == 8

\* strategy 3: the first meaningful line
RECURSIVE FirstMeaningful(_)
FirstMeaningful(lines) ==
    IF lines = << >> THEN None
    ELSE LET line == Strip(Head(lines))
         IN IF /\ Len(line) > 3
               /\ ~ContainsAny(Upper(line), exclude_patterns)
               /\ MatchAt(OnlyDigits, line, 0) = NoMatch
               /\ ~ContainsAny(Lower(line), {<<"t", "e", "l", ":">>, <<"p", "h", "o", "n", "e">>, <<"w", "w", "w", ".">>, <<"h", "t", "t", "p">>, <<"e", "m", "a", "i", "l">>})
            THEN Some(line)
            ELSE FirstMeaningful(Tail(lines))

\* _extract_merchant_enhanced
extract_merchant_enhanced(text_) ==
    Let(SplitLines(text_), LAMBDA lines :
    Let(KnownMerchant(Take(lines, KnownLines)), LAMBDA known :
        IF known # None THEN known
        ELSE Let(PatternMerchant(text_, 1), LAMBDA byPattern :
                 IF byPattern # None THEN byPattern
                 ELSE FirstMeaningful(Take(lines, MeaningfulLines)))))

(***************************************************************************)
(* Date.  dateutil is no part of the repository.  What its parser answers  *)
(* is modelled for the strings that are one number, or three numbers with  *)
(* one separator; for the other strings of a text it is an input, parsed,   *)
(* which is None when the parser raises and else the date it returns.      *)
(***************************************************************************)
Date(y, m, d) == [year |-> y, month |-> m, day |-> d]

DateSep == Set({"/", "-"})
Digits12 == Rep(Set(DigitCh), 1, 2)
Digits24 == Rep(Set(DigitCh), 2, 4)
LabelSep == Opt(Set({":", "."}))
RestOfLine == Plus(NotSet({"\n"}))
Month ==
    Alt(<<LitI(<<"J", "a", "n">>), LitI(<<"F", "e", "b">>), LitI(<<"M", "a", "r">>), LitI(<<"A", "p", "r">>), LitI(<<"M", "a", "y">>), LitI(<<"J", "u", "n">>),
          LitI(<<"J", "u", "l">>), LitI(<<"A", "u", "g">>), LitI(<<"S", "e", "p">>), LitI(<<"O", "c", "t">>), LitI(<<"N", "o", "v">>), LitI(<<"D", "e", "c">>)>>)

\* date_labels
date_labels ==
    << <<Alt(<<LitI(<<"b", "i", "l", "l">>), LitI(<<"i", "n", "v", "o", "i", "c", "e">>), LitI(<<"r", "e", "c", "e", "i", "p", "t">>)>>), Ws1,
         Alt(<<LitI(<<"d", "a", "t", "e">>), LitI(<<"d", "t">>)>>), Ws0, LabelSep, Ws0, RestOfLine>>,
       <<LitI(<<"d", "a", "t", "e">>), Ws0, LabelSep, Ws0, RestOfLine>>,
       <<LitI(<<"d", "t">>), Ws0, LabelSep, Ws0, RestOfLine>>,
       <<LitI(<<"d", "a", "t", "e">>), Opt(LitI(<<"d">>)), Ws0, LabelSep, Ws0, RestOfLine>> >>

\* date_patterns
date_patterns ==
    << <<Digits12, DateSep, Digits12, DateSep, Digits24>>,
       <<Digits12, Ws1, Month, Star(SetI(LowerCh)), Ws1, Digits24>>,
       <<Digits24, DateSep, Digits12, DateSep, Digits12>>,
       <<Digits12, Opt(Lit(<<".">>)), Digits12, Opt(Lit(<<".">>)), Digits24>> >>

\* time_pattern
time_pattern ==
    <<Digits12, DateSep, Digits12, DateSep, Digits24, Ws1, Digits12, Lit(<<":">>),
      Rep(Set(DigitCh), 2, 2)>>

MinYear == 2000

\* n in decimal, at least width digits wide
RECURSIVE Padded(_, _)
Padded(n, width) ==
    IF n < 10 /\ width <= 1 THEN <<DigitSeq[n + 1]>>
    ELSE Append(Padded(n \div 10, width - 1), DigitSeq[(n % 10) + 1])

\* strftime('%Y-%m-%d')
strftime(d) == Padded(d.year, 4) \o <<"-">> \o Padded(d.month, 2) \o <<"-">> \o Padded(d.day, 2)

IsLeap(y) == y % 4 = 0 /\ (y % 100 # 0 \/ y % 400 = 0)

\* the days of month m of year y
DaysIn(y, m) ==
    IF m = 2 THEN (IF IsLeap(y) THEN 29 ELSE 28)
    ELSE IF m \in {4, 6, 9, 11} THEN 30 ELSE 31

\* datetime.replace(year, month, day): None where it raises ValueError
MakeDate(y, m, d) ==
    IF y \in 1..9999 /\ m \in 1..12 /\ d \in 1..DaysIn(y, m) THEN Some(Date(y, m, d))
    ELSE None

\* dateutil's convertyear: a year below 100 written without its century
\* is taken within 50 years of the clock's year
convertyear(year, century_specified, clock_year) ==
    IF year < 100 /\ ~century_specified
    THEN Let(year + (clock_year \div 100) * 100, LAMBDA y :
             IF y >= clock_year + 50 THEN y - 100
             ELSE IF y < clock_year - 50 THEN y + 100
             ELSE y)
    ELSE year

Digits14 == Rep(Set(DigitCh), 1, 4)

\* a string that is one number of at most four digits
OneNumber == <<Digits14, Eol>>

\* a string that is three such numbers with the separator sep
ThreeNumbers(sep) == <<Digits14, Lit(<<sep>>), Digits14, Lit(<<sep>>), Digits14, Eol>>

\* dateutil on one number v, dayfirst: above 31 it is the year, else the day;
\* the rest is taken from the clock, the day of the clock being cut to the
\* length of the month
ParseOne(v, now_) ==
    IF v > 31
    THEN Let(convertyear(v, v > 100, now_.year), LAMBDA y :
             MakeDate(y, now_.month,
                      IF now_.day < DaysIn(y, now_.month) THEN now_.day ELSE DaysIn(y, now_.month)))
    ELSE MakeDate(now_.year, now_.month, v)

\* dateutil's resolve_ymd on three numbers, dayfirst: <<year, month, day>>.
\* long holds the places of the numbers written with more than two digits.
resolve_ymd(v, long) ==
    IF v[1] > 31 \/ long = {1}
    THEN (IF v[3] <= 12 THEN <<v[1], v[3], v[2]>> ELSE <<v[1], v[2], v[3]>>)
    ELSE IF v[1] > 12 \/ v[2] <= 12 THEN <<v[3], v[2], v[1]>>
    ELSE <<v[3], v[1], v[2]>>

\* dateutil on the three numbers t: a number of more than two digits is the
\* year, and two such numbers raise
ParseThree(t, now_) ==
    Let({i \in 1..3 : Len(t[i]) > 2}, LAMBDA long :
        IF Cardinality(long) > 1 THEN None
        ELSE Let(resolve_ymd([i \in 1..3 |-> IntOf(t[i])], long), LAMBDA ymd :
                 MakeDate(convertyear(ymd[1], long # {}, now_.year), ymd[2], ymd[3])))

\* date_parser.parse(date_str, fuzzy=True, dayfirst=True) at the clock now:
\* None where it raises, else the date
date_parser_parse(date_str, parsed_, now_) ==
    IF date_str = << >> THEN None
    ELSE IF MatchAt(OneNumber, date_str, 0) # NoMatch THEN ParseOne(IntOf(date_str), now_)
    ELSE IF \E sep \in {"/", "-"} : MatchAt(ThreeNumbers(sep), date_str, 0) # NoMatch
    THEN Let(MatchAt(ThreeNumbers(CHOOSE sep \in {"/", "-"} :
                                      MatchAt(ThreeNumbers(sep), date_str, 0) # NoMatch),
                     date_str, 0),
             LAMBDA m : ParseThree(<<Group(date_str, m, 1), Group(date_str, m, 3),
                                     Group(date_str, m, 5)>>, now_))
    ELSE parsed_

\* the characters line 213 keeps: [\d\-/\.\s\w]
DateStrChars == DigitCh \cup {"-", "/", "."} \cup SpaceCh \cup WordCh

\* _parse_date_string at the clock now
parse_date_string(date_str, parsed_, now_) ==
    Let(date_parser_parse(Strip(SelectSeq(date_str, LAMBDA c : c \in DateStrChars)),
                          parsed_, now_),
        LAMBDA d : IF d # None /\ MinYear <= Val(d).year /\ Val(d).year <= now_.year + 1
                   THEN Some(strftime(Val(d)))
                   ELSE None)

\* re.findall of a pattern that is one group: the matches, left to right
RECURSIVE FindAllWhole(_, _, _)
FindAllWhole(parts, s, i) ==
    Let(SearchFrom(parts, s, i), LAMBDA m :
        IF m = NoMatch THEN << >>
        ELSE <<SubSeq(s, MatchStart(m) + 1, MatchEnd(m))>>
             \o (IF MatchEnd(m) > MatchStart(m) THEN FindAllWhole(parts, s, MatchEnd(m))
                 ELSE FindAllWhole(parts, s, MatchEnd(m) + 1)))

\* lines 185-188: group 1 of the first match of a date label, stripped
LabelledDates(text_, k) ==
    Let(Search(date_labels[k], text_), LAMBDA m :
        IF m = NoMatch THEN << >> ELSE <<Strip(LastGroup(text_, m))>>)

\* lines 202-205: group 1 of the first match of the time pattern
TimedDates(text_) ==
    Let(Search(time_pattern, text_), LAMBDA m :
        IF m = NoMatch THEN << >> ELSE <<SubSeq(text_, m[1] + 1, m[6])>>)

\* the strings _extract_date_enhanced hands to _parse_date_string, in order
DateCandidates(text_) ==
    Concat([k \in 1..Len(date_labels) |-> LabelledDates(text_, k)], 1, Len(date_labels))
    \o Concat([k \in 1..Len(date_patterns) |-> FindAllWhole(date_patterns[k], text_, 0)],
               1, Len(date_patterns))
    \o TimedDates(text_)

\* _extract_date_enhanced: the first candidate that parses to a date of the
\* accepted years
extract_date_enhanced(text_, parsed_, now_) ==
    Let(DateCandidates(text_), LAMBDA cands :
    Let([i \in 1..Len(cands) |-> parse_date_string(cands[i], parsed_, now_)], LAMBDA dates :
        IF \A i \in 1..Len(dates) : dates[i] = None THEN None
        ELSE dates[CHOOSE i \in 1..Len(dates) :
                       dates[i] # None /\ \A j \in 1..(i - 1) : dates[j] = None]))

(***************************************************************************)
(* Receipt number and payment method.                                      *)
(***************************************************************************)
NumberSep == Opt(Set({":", "-"}))
Number == Plus(SetI(UpperCh \cup DigitCh \cup {"-", "/"}))

\* the patterns of _extract_receipt_number, each with the number as its last part
receipt_patterns ==
    << <<Alt(<<LitI(<<"r", "e", "c", "e", "i", "p", "t">>), LitI(<<"b", "i", "l", "l">>), LitI(<<"i", "n", "v", "o", "i", "c", "e">>)>>), Ws0,
         Alt(<<LitI(<<"n", "o">>), LitI(<<"n", "u", "m", "b", "e", "r">>), Lit(<<"#">>)>>), Ws0, NumberSep, Ws0, Number>>,
       <<Alt(<<LitI(<<"r", "e", "f">>), LitI(<<"r", "e", "f", "e", "r", "e", "n", "c", "e">>)>>), Ws0,
         Opt(Alt(<<LitI(<<"n", "o">>), LitI(<<"n", "u", "m", "b", "e", "r">>)>>)), Ws0, NumberSep, Ws0, Number>>,
       <<Alt(<<LitI(<<"t", "r", "a", "n", "s", "a", "c", "t", "i", "o", "n">>), LitI(<<"t", "x", "n">>)>>), Ws0,
         Opt(Alt(<<LitI(<<"i", "d">>), LitI(<<"n", "o">>)>>)), Ws0, NumberSep, Ws0, Number>> >>

RECURSIVE ReceiptNumber(_, _)
ReceiptNumber(text_, k) ==
    IF k > Len(receipt_patterns) THEN None
    ELSE Let(Search(receipt_patterns[k], text_), LAMBDA m :
             IF m # NoMatch THEN Some(Strip(Group(text_, m, Len(m) - 1)))
             ELSE ReceiptNumber(text_, k + 1))

\* _extract_receipt_number
extract_receipt_number(text_) == ReceiptNumber(text_, 1)

\* payment_methods, in the order of the dictionary
payment_methods ==
    << <<"cash", {<<"c", "a", "s", "h">>, <<"c", "a", "s", "h", " ", "p", "a", "y", "m", "e", "n", "t">>}>>,
       <<"card", {<<"c", "a", "r", "d">>, <<"c", "r", "e", "d", "i", "t", " ", "c", "a", "r", "d">>, <<"d", "e", "b", "i", "t", " ", "c", "a", "r", "d">>, <<"v", "i", "s", "a">>, <<"m", "a", "s", "t", "e", "r", "c", "a", "r", "d">>}>>,
       <<"upi", {<<"u", "p", "i">>, <<"p", "a", "y", "t", "m">>, <<"g", "p", "a", "y">>, <<"p", "h", "o", "n", "e", "p", "e">>, <<"b", "h", "i", "m">>}>>,
       <<"wallet", {<<"w", "a", "l", "l", "e", "t">>, <<"d", "i", "g", "i", "t", "a", "l", " ", "w", "a", "l", "l", "e", "t">>}>>,
       <<"net_banking", {<<"n", "e", "t", " ", "b", "a", "n", "k", "i", "n", "g">>, <<"n", "e", "t", "b", "a", "n", "k", "i", "n", "g">>, <<"o", "n", "l", "i", "n", "e">>}>> >>

\* _extract_payment_method
extract_payment_method(text_) ==
    LET hits == {k \in 1..Len(payment_methods) : ContainsAny(Lower(text_), payment_methods[k][2])}
    IN IF hits = {} THEN None
       ELSE Some(payment_methods[CHOOSE k \in hits : \A j \in hits : k <= j][1])

(***************************************************************************)
(* Confidence, validation and the whole extraction.                        *)
(***************************************************************************)
\* Python's truth of an optional string and of an optional number
Filled(o) == o # None /\ Len(Val(o)) > 0
Truthy(o) == o # None /\ Val(o) # 0

RECURSIVE SumPrices(_)
SumPrices(items) ==
    IF items = << >> THEN 0 ELSE Head(items).total_price + SumPrices(Tail(items))

max_score == 100

\* a score that also counts the payment method
ConfidenceWithPayment(result_) ==
    LET score ==
            (IF Filled(result_.merchant) THEN 20 ELSE 0)
          + (IF Filled(result_.date) THEN 15 ELSE 0)
          + (IF Truthy(result_.total) THEN 25 ELSE 0)
          + (IF Truthy(result_.tax) THEN 10 ELSE 0)
          + (IF Filled(result_.items) THEN 20 ELSE 0)
          + (IF Filled(result_.receipt_number) THEN 5 ELSE 0)
          + (IF result_.payment_method # None THEN 5 ELSE 0)
    IN IF score < Scale THEN score ELSE Scale

\* _calculate_extraction_confidence: the score, in 1/Scale
calculate_extraction_confidence(result_) ==
    LET score ==
            (IF Filled(result_.merchant) THEN 20 ELSE 0)
          + (IF Filled(result_.date) THEN 15 ELSE 0)
          + (IF /\ Truthy(result_.total)
                /\ MinTotal * Scale <= Val(result_.total)
                /\ Val(result_.total) <= MaxTotal * Scale
             THEN 25 ELSE 0)
          + (IF Truthy(result_.tax) THEN 10 ELSE 0)
          + (IF Filled(result_.items) THEN 20 ELSE 0)
          + (IF Filled(result_.items) /\ Len(Val(result_.items)) > 1 THEN 5 ELSE 0)
          + (IF Filled(result_.receipt_number) THEN 5 ELSE 0)
        ratio == (score * Scale) \div max_score
    IN IF ratio < Scale THEN ratio ELSE Scale

ItemsTolerance == 5
SumTolerance == 2

\* a validation that also derives a missing total from the items
ValidateInventingTotal(result_) ==
    IF result_.total = None /\ Filled(result_.items)
    THEN [result_ EXCEPT !.total = Some(SumPrices(Val(result_.items)))]
    ELSE IF Filled(result_.items) /\ Truthy(result_.total)
              /\ Abs(SumPrices(Val(result_.items)) - Val(result_.total)) < ItemsTolerance * Scale
    THEN [result_ EXCEPT !.total = Some(SumPrices(Val(result_.items)))]
    ELSE result_

\* _validate_and_correct
validate_and_correct(result_) ==
    LET items_total == SumPrices(Val(result_.items))
        byItems ==
            IF /\ Filled(result_.items)
               /\ Truthy(result_.total)
               /\ Abs(items_total - Val(result_.total)) < ItemsTolerance * Scale
            THEN [result_ EXCEPT !.total = Some(items_total)]
            ELSE result_
        calculated_total == Val(byItems.subtotal) + Val(byItems.tax)
    IN IF /\ Truthy(byItems.subtotal)
          /\ Truthy(byItems.tax)
          /\ Truthy(byItems.total)
          /\ Abs(calculated_total - Val(byItems.total)) < SumTolerance * Scale
       THEN [byItems EXCEPT !.total = Some(calculated_total)]
       ELSE byItems

\* extract_data, for what the date parser answers and the year of the clock
\* (a name that is also a state variable carries a trailing underscore here)
extract_data(text_, parsed_, now_) ==
    Let(clean_text(text_), LAMBDA cleaned_text_ :
    Let(extract_amounts_enhanced(cleaned_text_), LAMBDA amounts :
    Let([raw_text |-> text_,
         merchant |-> extract_merchant_enhanced(cleaned_text_),
         date |-> extract_date_enhanced(cleaned_text_, parsed_, now_),
         total |-> amounts.total,
         subtotal |-> amounts.subtotal,
         tax |-> amounts.tax,
         items |-> Some(extract_items_enhanced(cleaned_text_)),
         receipt_number |-> extract_receipt_number(cleaned_text_),
         payment_method |-> extract_payment_method(cleaned_text_)], LAMBDA fields :
    Let([f \in DOMAIN fields \cup {"confidence_score"} |->
            IF f = "confidence_score" THEN calculate_extraction_confidence(fields)
            ELSE fields[f]], LAMBDA result_ :
        validate_and_correct(result_)))))

(***************************************************************************)
(* process_ocr (src/app.py).                                               *)
(***************************************************************************)
\* (\d+\.\d{2})
TwoDecimals == Cat(<<Digits, Lit(<<".">>), Rep(Set(DigitCh), 2, 2)>>)
\* (\d+\.?\d*)
LooseNumber == Cat(<<Digits, Opt(Lit(<<".">>)), Star(Set(DigitCh))>>)
\* [:\s]*
ColonSpaces == Star(Set(SpaceCh \cup {":"}))

\* qty:\s*iy\s*(\d+\.\d{2})
dmart_total == <<Lit(<<"q", "t", "y", ":">>), Ws0, Lit(<<"i", "y">>), Ws0, TwoDecimals>>

\* total_patterns of process_ocr, in order; the amount is the last part of each
app_total_patterns ==
    << dmart_total,
       <<Lit(<<"t", "o", "t", "a", "l">>), ColonSpaces, Opt(Lit(<<Rupee>>)), Ws0, LooseNumber>>,
       <<Lit(<<"a", "m", "o", "u", "n", "t">>), ColonSpaces, Opt(Lit(<<Rupee>>)), Ws0, LooseNumber>>,
       <<Lit(<<Rupee>>), Ws0, TwoDecimals>>,
       <<Lit(<<"r", "s">>), Opt(Lit(<<".">>)), Ws0, TwoDecimals>>,
       <<Cat(<<Rep(Set(DigitCh), 4, 4), Lit(<<".">>), Rep(Set(DigitCh), 2, 2)>>)>>,
       <<Cat(<<Rep(Set(DigitCh), 3, 3), Lit(<<".">>), Rep(Set(DigitCh), 2, 2)>>)>> >>

MinBasicTotal == 10
MaxBasicTotal == 50000
DmartLow == 1000
DmartHigh == 1200

\* the amounts of strs[k..] within the range of a receipt total, in order
RECURSIVE ReasonableAmounts(_, _)
ReasonableAmounts(strs, k) ==
    IF k > Len(strs) THEN << >>
    ELSE Let(ParseFloat(strs[k]), LAMBDA amount :
             (IF MinBasicTotal * Scale <= amount /\ amount <= MaxBasicTotal * Scale
              THEN <<amount>> ELSE << >>)
             \o ReasonableAmounts(strs, k + 1))

\* the first amount between 1000 and 1200 if there is one, else the greatest
PickTotal(amounts) ==
    LET near == {i \in 1..Len(amounts) :
                    DmartLow * Scale <= amounts[i] /\ amounts[i] <= DmartHigh * Scale}
    IN IF near # {} THEN amounts[CHOOSE i \in near : \A j \in near : i <= j]
       ELSE CHOOSE a \in SeqToSet(amounts) : \A b \in SeqToSet(amounts) : b <= a

\* the loop over total_patterns from the k-th on
RECURSIVE GeneralTotal(_, _)
GeneralTotal(lower, k) ==
    IF k > Len(app_total_patterns) THEN None
    ELSE Let(ReasonableAmounts(FindAll(app_total_patterns[k], lower, 0), 1), LAMBDA amounts :
             IF amounts # << >> THEN Some(PickTotal(amounts))
             ELSE GeneralTotal(lower, k + 1))

\* receipt_data['total']
BasicTotal(lower) ==
    Let(Search(dmart_total, lower), LAMBDA m :
        IF m # NoMatch THEN Some(ParseFloat(LastGroup(lower, m)))
        ELSE GeneralTotal(lower, 1))

\* date_patterns of process_ocr, in order; the date is the last part of each
app_date_patterns ==
    << <<Cat(<<Digits12, DateSep, Digits12, DateSep, Digits24>>)>>,
       <<Cat(<<Rep(Set(DigitCh), 4, 4), DateSep, Digits12, DateSep, Digits12>>)>>,
       <<Cat(<<Rep(Set(DigitCh), 2, 2), Lit(<<"/">>), Rep(Set(DigitCh), 2, 2), Lit(<<"/">>),
               Rep(Set(DigitCh), 4, 4)>>)>>,
       <<Lit(<<"b", "i", "l", "l", " ", "d", "t">>), ColonSpaces,
         Cat(<<Rep(Set(DigitCh), 2, 2), Lit(<<"/">>), Rep(Set(DigitCh), 2, 2), Lit(<<"/">>),
               Rep(Set(DigitCh), 4, 4)>>)>> >>

\* receipt_data['date']: the first match of the first pattern that matches
RECURSIVE BasicDate(_, _)
BasicDate(lower, k) ==
    IF k > Len(app_date_patterns) THEN None
    ELSE Let(FindAll(app_date_patterns[k], lower, 0), LAMBDA matches :
             IF matches # << >> THEN Some(matches[1]) ELSE BasicDate(lower, k + 1))

\* [line.strip() for line in text.split('\n') if line.strip()]
RECURSIVE StrippedLines(_, _)
StrippedLines(lines, k) ==
    IF k > Len(lines) THEN << >>
    ELSE (IF Strip(lines[k]) # EmptyText THEN <<Strip(lines[k])>> ELSE << >>)
         \o StrippedLines(lines, k + 1)

\* the dictionary the basic processing returns for the text pytesseract read
BasicReceiptData(text_) ==
    [raw_text |-> Strip(text_),
     lines |-> StrippedLines(SplitLines(text_), 1),
     method |-> "basic_pytesseract",
     status |-> "processed",
     total |-> BasicTotal(Lower(text_)),
     date |-> BasicDate(Lower(text_), 1)]

(***************************************************************************)
(* The scanner's tables.                                                   *)
(***************************************************************************)
\* self.tesseract_configs, in insertion order
tesseract_configs ==
    <<"default", "single_column", "sparse_text", "single_word", "digits_only",
      "receipt_optimized">>

\* preferred_configs of fast mode
preferred_configs == <<"receipt_optimized">>

\* config_items with the two modes exchanged: every configuration in fast
\* mode, the preferred one otherwise
ConfigItemsExchanged(fast_mode_) ==
    IF fast_mode_
    THEN tesseract_configs
    ELSE SelectSeq(preferred_configs, LAMBDA n : n \in SeqToSet(tesseract_configs))

\* config_items: the configurations the Tesseract loop runs over
ConfigItems(fast_mode_) ==
    IF fast_mode_
    THEN SelectSeq(preferred_configs, LAMBDA n : n \in SeqToSet(tesseract_configs))
    ELSE tesseract_configs

\* processed_images: the names of the variants, in insertion order
\* (lines 119-129 and _advanced_preprocessing), persp telling whether
\* _perspective_correction returned an image
FastVariants(persp) ==
    <<"standard", "adaptive">>
    \o (IF persp THEN <<"perspective_standard", "perspective_adaptive">> ELSE << >>)

AdvancedPreprocessing(persp) ==
    <<"standard", "high_contrast", "denoised", "sharpened">>
    \o (IF persp THEN <<"perspective">> ELSE << >>)
    \o <<"adaptive">>

Variants(fast_mode_, persp) ==
    IF fast_mode_ THEN FastVariants(persp) ELSE AdvancedPreprocessing(persp)

(***************************************************************************)
(* The environment: the image and what the libraries do on it.             *)
(***************************************************************************)
Combo(e, c, v) == [engine |-> e, config |-> c, variant |-> v]

NoCombo == Combo("-", "-", "-")

\* what one OCR call does: it raises, or returns a text and a confidence
Raises == [raises |-> TRUE, text |-> EmptyText, conf |-> 0]

Outcomes ==
    {Raises} \cup {[raises |-> FALSE, text |-> t, conf |-> c] : t \in OcrTexts, c \in ConfLevels}

\* the combinations whose outcome an environment may set apart from the default
ProbeCombos ==
    { Combo("tesseract", "default", "standard"),
      Combo("tesseract", "receipt_optimized", "standard"),
      Combo("tesseract", "receipt_optimized", "perspective_standard"),
      Combo("easyocr", "-", "standard"),
      Combo("easyocr", "-", "high_contrast") }

Anomaly(k, c, o) == [kind |-> k, combo |-> c, out |-> o]

NoAnomaly == Anomaly("none", NoCombo, Raises)

\* the file decodes neither with PIL nor with cv2.imread
Unreadable == Anomaly("unreadable", NoCombo, Raises)

Anomalies ==
    {NoAnomaly, Unreadable} \cup {Anomaly("ocr", c, o) : c \in ProbeCombos, o \in Outcomes}

\* what _perspective_correction does on the image: it finds no quadrilateral,
\* returns the warped image, or raises (cv2.warpPerspective on a quadrilateral
\* less than a pixel wide or high)
PerspectiveOutcomes == {"none", "found", "raises"}

Envs ==
    [h : 1..MaxDim, w : 1..MaxDim, persp : PerspectiveOutcomes, dflt : Outcomes,
     anomaly : Anomalies]

\* what the OCR call of combination c does in environment e
OcrOutcome(e, c) ==
    IF e.anomaly.kind = "ocr" /\ e.anomaly.combo = c THEN e.anomaly.out ELSE e.dflt

\* an image path: directory, name and extension
Path(d, n, x) == [dir |-> d, name |-> n, ext |-> x]

\* os.path.splitext(os.path.basename(original_path))[0]
BaseName(path) == path.name

\* os.path.join("data/processed", f"{base_name}_{method}.jpg")
SavePath(path, method) == "data/processed/" \o BaseName(path) \o "_" \o method \o ".jpg"

\* cv2.imwrite(save_path, image): the file holds the variant of that image
ImWrite(d, path, method) ==
    [f \in DOMAIN d \cup {SavePath(path, method)} |->
        IF f = SavePath(path, method) THEN [of |-> path, variant |-> method] ELSE d[f]]

\* _save_processed_images: one file for each of the variants vs[k..]
RECURSIVE save_processed_images(_, _, _, _)
save_processed_images(d, vs, path, k) ==
    IF k > Len(vs) THEN d
    ELSE save_processed_images(ImWrite(d, path, vs[k]), vs, path, k + 1)

\* no file under data/processed
NoFiles == [f \in {} |-> Path("", "", "")]

VARIABLES
    env,                \* the image and the libraries' behaviour on it
    easyocr_available,  \* self.easyocr_available
    pc,                 \* where the running scan_receipt call stands
    fast_mode,          \* argument of the running call
    save_processed,     \* argument of the running call
    image,              \* the local image: None, or its height and width
    processed_images,   \* the names of the variants, in insertion order
    ocr_results,        \* the local list ocr_results
    best_result,        \* the local best_result
    attempted,          \* the OCR engine calls made by the running call
    history,            \* per mode, what the finished call of that mode did
    text,               \* extract_data: the argument text
    parsed,             \* extract_data: what the date parser answers
    now,                \* extract_data: the date datetime.now() gives
    earlier,            \* the record an earlier extract_data call returned
    step,               \* extract_data: where the call stands
    cleaned_text,       \* extract_data: the local cleaned_text
    result,             \* extract_data: the local result
    disk,               \* the files under data/processed: what each holds
    scans,              \* the scan_receipt calls that run side by side
    SCANNER_AVAILABLE,  \* app.py: "enhanced", or "basic" when the import failed
    scan_outcome,       \* process_ocr: what enhanced_scanner.scan_receipt does
    page,               \* process_ocr: what cv2 and pytesseract do on the image
    ocr_pc,             \* process_ocr: where the call stands
    receipt_data,       \* process_ocr: what the call returned
    pts,                \* _order_points: the argument, four corner points
    rect                \* _order_points: the array it returns

scanner == <<env, easyocr_available, pc, fast_mode, save_processed, image, processed_images,
             ocr_results, best_result, attempted, history>>

extractor == <<text, parsed, now, earlier, step, cleaned_text, result>>

store == <<disk, scans>>

caller == <<SCANNER_AVAILABLE, scan_outcome, page, ocr_pc, receipt_data>>

geometry == <<pts, rect>>

vars == <<scanner, extractor, store, caller, geometry>>

Modes == {"fast", "full"}

ModeOf(fm) == IF fm THEN "fast" ELSE "full"

\* ExtractedData(): the record with the defaults of the dataclass
ExtractedData ==
    [merchant |-> None, date |-> None, total |-> None, subtotal |-> None, tax |-> None,
     items |-> None, payment_method |-> None, receipt_number |-> None,
     confidence_score |-> 0, raw_text |-> EmptyText]

(***************************************************************************)
(* scan_receipt, block by block.                                           *)
(***************************************************************************)
\* no extract_data call of its own runs beside the scanner
\* the date datetime.now() gives
current_year == 2026
Today == Date(current_year, 11, 4)

\* the image_path of the scan_receipt call made alone
image_path == Path("uploads", "receipt", ".jpg")

\* nothing saved yet, and no calls side by side
StoreIdle ==
    /\ disk = NoFiles
    /\ scans = << >>

\* no process_ocr call runs
CallerIdle ==
    /\ SCANNER_AVAILABLE = "enhanced"
    /\ scan_outcome = None
    /\ page = None
    /\ ocr_pc = "off"
    /\ receipt_data = None

\* no _order_points call runs
GeometryIdle == pts = None /\ rect = None

ExtractorIdle ==
    /\ text = EmptyText
    /\ parsed = None
    /\ now = Today
    /\ earlier = None
    /\ step = "off"
    /\ cleaned_text = EmptyText
    /\ result = ExtractedData

Init ==
    /\ env \in Envs
    /\ easyocr_available \in BOOLEAN
    /\ pc = "idle"
    /\ fast_mode = FALSE
    /\ save_processed = FALSE
    /\ image = None
    /\ processed_images = << >>
    /\ ocr_results = << >>
    /\ best_result = None
    /\ attempted = << >>
    /\ history = [m \in Modes |-> None]
    /\ ExtractorIdle
    /\ StoreIdle
    /\ CallerIdle
    /\ GeometryIdle

\* a caller invokes scan_receipt(image_path, save_processed, fast_mode)
StartScan(sp, fm) ==
    /\ pc = "idle"
    /\ history[ModeOf(fm)] = None
    /\ pc' = "load"
    /\ fast_mode' = fm
    /\ save_processed' = sp
    /\ UNCHANGED <<env, easyocr_available, image, processed_images, ocr_results,
                   best_result, attempted, history, extractor, store, caller, geometry>>

\* the call is over: it returned r or raised x; its locals are gone
Finish(r, x, best) ==
    /\ pc' = "idle"
    /\ history' = [history EXCEPT ![ModeOf(fast_mode)] =
                      Some([returned |-> r, exc |-> x, attempted |-> attempted,
                            ocr_results |-> ocr_results, best_result |-> best,
                            processed_images |-> processed_images])]
    /\ fast_mode' = FALSE
    /\ save_processed' = FALSE
    /\ image' = None
    /\ processed_images' = << >>
    /\ ocr_results' = << >>
    /\ best_result' = None
    /\ attempted' = << >>
    /\ UNCHANGED <<env, easyocr_available, extractor, store, caller, geometry>>

\* lines 93-103: PIL with EXIF transpose, else cv2.imread; None raises ValueError
LoadImage ==
    /\ pc = "load"
    /\ IF env.anomaly.kind = "unreadable"
       THEN Finish(None, Some("ValueError"), None)
       ELSE /\ image' = Some([h |-> env.h, w |-> env.w])
            /\ pc' = "crop"
            /\ UNCHANGED <<env, easyocr_available, fast_mode, save_processed,
                           processed_images, ocr_results, best_result, attempted, history,
                           extractor, store, caller, geometry>>

\* int(f * n) for the fractions of the crop, f given in hundredths
Frac(f, n) == (f * n) \div 100

\* image[top:bottom, left:right]
Cropped(img) ==
    LET top == Frac(5, img.h)
        bottom == Frac(95, img.h)
        left == Frac(10, img.w)
        right == Frac(90, img.w)
    IN [h |-> IF bottom > top THEN bottom - top ELSE 0,
        w |-> IF right > left THEN right - left ELSE 0]

\* lines 105-115: the central crop
CropImage ==
    /\ pc = "crop"
    /\ image' = IF Val(image).h > 0 /\ Val(image).w > 0
                THEN Some(Cropped(Val(image)))
                ELSE image
    /\ pc' = "preprocess"
    /\ UNCHANGED <<env, easyocr_available, fast_mode, save_processed, processed_images,
                   ocr_results, best_result, attempted, history, extractor, store, caller,
                   geometry>>

IsEmptyImage(img) == img.h = 0 \/ img.w = 0

\* whether variant generation raises on this image: cv2.cvtColor rejects an
\* empty array, and _perspective_correction may raise
PreprocessRaises(e, img) == IsEmptyImage(img) \/ e.persp = "raises"

\* lines 117-132: the variants; nothing catches what a step raises
Preprocess ==
    /\ pc = "preprocess"
    /\ IF PreprocessRaises(env, Val(image))
       THEN Finish(None, Some("cv2.error"), None)
       ELSE /\ processed_images' = Variants(fast_mode, env.persp = "found")
            /\ pc' = "tesseract"
            /\ UNCHANGED <<env, easyocr_available, fast_mode, save_processed, image,
                           ocr_results, best_result, attempted, history, extractor, store, caller,
                           geometry>>

OCRResult(t, c, m) == [text |-> t, confidence |-> c, method |-> m]

\* the pairs (config, variant) of the Tesseract loop, config-major
RECURSIVE Cross(_, _)
Cross(cfgs, vs) ==
    IF cfgs = << >> THEN << >>
    ELSE [i \in 1..Len(vs) |-> Combo("tesseract", Head(cfgs), vs[i])] \o Cross(Tail(cfgs), vs)

\* guarded calls whose result is kept only for a text that is not blank
RECURSIVE GuardedNonBlank(_, _)
GuardedNonBlank(e, combos) ==
    IF combos = << >> THEN << >>
    ELSE LET c == Head(combos)
             o == OcrOutcome(e, c)
         IN (IF o.raises \/ Strip(o.text) = EmptyText THEN << >>
             ELSE <<OCRResult(o.text, o.conf, <<c.engine, c.config, c.variant>>)>>)
            \o GuardedNonBlank(e, Tail(combos))

\* the results a sequence of independently guarded OCR calls appends
RECURSIVE Guarded(_, _)
Guarded(e, combos) ==
    IF combos = << >> THEN << >>
    ELSE LET c == Head(combos)
             o == OcrOutcome(e, c)
         IN (IF o.raises THEN << >>
             ELSE <<OCRResult(o.text, o.conf, <<c.engine, c.config, c.variant>>)>>)
            \o Guarded(e, Tail(combos))

\* lines 134-161: every configuration on every variant, each in its own try
TesseractLoop ==
    /\ pc = "tesseract"
    /\ LET combos == Cross(ConfigItems(fast_mode), processed_images)
       IN /\ ocr_results' = ocr_results \o Guarded(env, combos)
          /\ attempted' = attempted \o combos
    /\ pc' = "easyocr"
    /\ UNCHANGED <<env, easyocr_available, fast_mode, save_processed, image,
                   processed_images, best_result, history, extractor, store, caller, geometry>>

\* the calls a loop inside one try makes: it stops at the first that raises
RECURSIVE UpToRaise(_, _)
UpToRaise(e, combos) ==
    IF combos = << >> THEN << >>
    ELSE IF OcrOutcome(e, Head(combos)).raises THEN <<Head(combos)>>
    ELSE <<Head(combos)>> \o UpToRaise(e, Tail(combos))

\* the results of those calls
RECURSIVE ResultsUpToRaise(_, _, _)
ResultsUpToRaise(e, combos, label) ==
    IF combos = << >> THEN << >>
    ELSE LET c == Head(combos)
             o == OcrOutcome(e, c)
         IN IF o.raises THEN << >>
            ELSE <<OCRResult(o.text, o.conf, <<label, c.variant>>)>>
                 \o ResultsUpToRaise(e, Tail(combos), label)

\* the variants EasyOCR reads
EasyVariants(fm, vs) ==
    IF fm
    THEN IF "standard" \in SeqToSet(vs) THEN <<"standard">> ELSE <<Head(vs)>>
    ELSE vs

\* the EasyOCR block without the test of self.easyocr_available
EasyOcrBlockUnguarded ==
    /\ pc = "easyocr"
    /\ LET vs == EasyVariants(fast_mode, processed_images)
           combos == [i \in 1..Len(vs) |-> Combo("easyocr", "-", vs[i])]
           label == IF fast_mode THEN "easyocr_fast" ELSE "easyocr"
       IN /\ ocr_results' = ocr_results \o ResultsUpToRaise(env, combos, label)
          /\ attempted' = attempted \o UpToRaise(env, combos)
    /\ pc' = "save"
    /\ UNCHANGED <<env, easyocr_available, fast_mode, save_processed, image,
                   processed_images, best_result, history, extractor, store, caller, geometry>>

\* lines 163-198: EasyOCR, the whole block in one try
EasyOcrBlock ==
    /\ pc = "easyocr"
    /\ IF easyocr_available
       THEN LET vs == EasyVariants(fast_mode, processed_images)
                combos == [i \in 1..Len(vs) |-> Combo("easyocr", "-", vs[i])]
                label == IF fast_mode THEN "easyocr_fast" ELSE "easyocr"
            IN /\ ocr_results' = ocr_results \o ResultsUpToRaise(env, combos, label)
               /\ attempted' = attempted \o UpToRaise(env, combos)
       ELSE UNCHANGED <<ocr_results, attempted>>
    /\ pc' = "save"
    /\ UNCHANGED <<env, easyocr_available, fast_mode, save_processed, image,
                   processed_images, best_result, history, extractor, store, caller, geometry>>

\* lines 200-202: the debug images, written if save_processed; cv2.imwrite
\* answers False where it cannot write
SaveProcessed ==
    /\ pc = "save"
    /\ disk' = IF save_processed
               THEN save_processed_images(disk, processed_images, image_path, 1)
               ELSE disk
    /\ pc' = "select"
    /\ UNCHANGED <<env, easyocr_available, fast_mode, save_processed, image,
                   processed_images, ocr_results, best_result, attempted, history, extractor,
                   scans, caller, geometry>>

\* the method string of a result: f"tesseract_{config_name}_{proc_name}",
\* f"easyocr_fast_{proc_name}" and f"easyocr_{proc_name}" (lines 158, 181, 194)
MethodLabel(method) ==
    IF method[1] = "tesseract" THEN method[1] \o "_" \o method[2] \o "_" \o method[3]
    ELSE method[1] \o "_" \o method[2]

\* the engine invocations behind the calls of attempted: image_to_string and,
\* when it returned, image_to_data of _calculate_tesseract_confidence (lines
\* 151, 154, 432); one readtext for EasyOCR (lines 174, 187)
RECURSIVE EngineCalls(_, _)
EngineCalls(e, combos) ==
    IF combos = << >> THEN 0
    ELSE (IF Head(combos).engine = "tesseract" /\ ~OcrOutcome(e, Head(combos)).raises
          THEN 2 ELSE 1)
         + EngineCalls(e, Tail(combos))

\* a selection that keeps the last of the greatest
RECURSIVE LastByConfidence(_)
LastByConfidence(rs) ==
    IF Len(rs) = 1 THEN rs[1]
    ELSE LET m == LastByConfidence(SubSeq(rs, 1, Len(rs) - 1))
             l == rs[Len(rs)]
         IN IF l.confidence >= m.confidence THEN l ELSE m

\* max(ocr_results, key=lambda x: x.confidence): the first of the greatest
RECURSIVE MaxByConfidence(_)
MaxByConfidence(rs) ==
    IF Len(rs) = 1 THEN rs[1]
    ELSE LET m == MaxByConfidence(SubSeq(rs, 1, Len(rs) - 1))
             l == rs[Len(rs)]
         IN IF l.confidence > m.confidence THEN l ELSE m

\* line 205
BestOf(rs) == IF rs = << >> THEN None ELSE Some(MaxByConfidence(rs))

\* lines 204-209: the best result; without one the call returns the record
\* ExtractedData(raw_text="OCR_FAILED")
SelectBest ==
    /\ pc = "select"
    /\ LET best == BestOf(ocr_results)
       IN IF best = None
          THEN Finish(Some([ExtractedData EXCEPT !.raw_text = OCR_FAILED]), None, None)
          ELSE /\ best_result' = best
               /\ pc' = "extract"
               /\ UNCHANGED <<env, easyocr_available, fast_mode, save_processed, image,
                              processed_images, ocr_results, attempted, history, extractor,
                              store, caller, geometry>>

\* _enhanced_data_extraction on each text of the environments; none of them
\* holds a date, so that the date parser is not asked
Extracted == [t \in OcrTexts |-> extract_data(t, None, Today)]

\* lines 213-218: the fields of the best text, then raw_text and
\* confidence_score set from the best result
ExtractFields ==
    /\ pc = "extract"
    /\ Finish(Some([Extracted[Val(best_result).text] EXCEPT
                        !.raw_text = Val(best_result).text,
                        !.confidence_score = Val(best_result).confidence]),
              None, best_result)

Next ==
    \/ \E sp \in BOOLEAN, fm \in BOOLEAN : StartScan(sp, fm)
    \/ LoadImage
    \/ CropImage
    \/ Preprocess
    \/ TesseractLoop
    \/ EasyOcrBlock
    \/ SaveProcessed
    \/ SelectBest
    \/ ExtractFields

Spec == Init /\ [][Next]_vars

(***************************************************************************)
(* extract_data, statement by statement.                                   *)
(***************************************************************************)
\* the words of the generated texts
Vocabulary == <<<<"t", "o", "t", "a", "l">>, <<"t", "a", "x", ":">>, <<"1", "1", "1", "1", "1", "1">>, <<"1", "2">>, <<"a", "b", "c">>, <<"0">>>>

\* texts given whole
ProbeTexts == {<<"a", "b", "c", " ", "0", " ", "0", " ", "7", " ", "7">>, <<"T", "O", "T", "A", "L", ":", " ", "$", "3", "1", ".", "3", "9">>, <<"a", "1">>, <<"T", "I", "N", " ", "u", "p", "i">>, <<"b", "i", "l", "l", " ", "n", "o", " ", "7">>,
     <<"R", "E", "L", "I", "A", "N", "C", "E">>, <<"E", "A", "S", "Y", "D", "A", "Y">>,
     <<"t", "o", "t", "a", "l", " ", "1", "2", "\n", "t", "o", "t", "a", "l", " ", "3", "4">>,
     <<"a", "b", "c", " ", "1", "2", " ", "3", "4">>,
     <<"C", "G", "S", "T", " ", "@", "9", "%", " ", ":", " ", Rupee, "4", "6", ".", "5", "9">>,
     <<"1", " ", "a", "b", "c", " ", "2", " ", "3", " ", "9", "9">>,
     <<"p", "a", "y", " ", "1", "2", " ", "G", "S", "T", " ", "3", " ", "a", "b", "c", " ", "1", " ", "1", "1", " ", "1", "1">>,
     <<"p", "a", "y", " ", "1", "2", " ", "a", "b", "c", " ", "1", " ", "1", "1", " ", "1", "1">>}

\* a text that is a labelled total: the label, a currency sign and an amount
TotalText(sign, amount) == <<"T", "O", "T", "A", "L", ":", " ">> \o <<sign>> \o amount

CurrencySigns == {"$", Rupee}

TotalAmounts == {<<"3", "1", ".", "3", "9">>, <<"1", "2">>}

TotalTexts == {TotalText(sign, amount) : sign \in CurrencySigns, amount \in TotalAmounts}

\* item lines of the shape name, quantity, unit price, line total
ItemLine(n, q, u, t) == [name |-> n, quantity |-> q, unit_price |-> u, total_price |-> t]

LineText(l) == l.name \o <<" ">> \o l.quantity \o <<" ">> \o l.unit_price \o <<" ">> \o l.total_price

ItemLines ==
    {ItemLine(<<"S", "A", "F", "A", "L", " ", "G", "R", "E", "E", "N", " ", "P", "E", "A", "S">>, <<"1">>, <<"1", "5", "5", ".", "0", "0">>, <<"1", "5", "5", ".", "0", "0">>),
     ItemLine(<<"L", "I", "J", "J", "A", "T", " ", "P", "A", "P", "A", "D">>, <<"2">>, <<"4", "2", ".", "0", "0">>, <<"8", "4", ".", "0", "0">>),
     ItemLine(<<"a", "b", "c">>, <<"1">>, <<"2">>, <<"2">>),
     ItemLine(<<"A", "B", "C">>, <<"1">>, <<"3">>, <<"3">>)}

\* the texts of two item lines
ItemTexts == {LineText(a) \o <<"\n">> \o LineText(b) : a, b \in ItemLines}

\* the texts of at most n words
RECURSIVE TokenTexts(_)
TokenTexts(n) ==
    IF n = 0 THEN {EmptyText}
    ELSE LET shorter == TokenTexts(n - 1)
         IN shorter
            \cup {Vocabulary[k] : k \in 1..Len(Vocabulary)}
            \cup {t \o <<" ">> \o Vocabulary[k] :
                    t \in shorter \ {EmptyText}, k \in 1..Len(Vocabulary)}

Texts == ProbeTexts \cup TotalTexts \cup ItemTexts \cup TokenTexts(MaxTokens)

\* what the date parser may answer: it raises, or returns a date
ParserAnswers == {None, Some(Date(MinYear, 1, 2)), Some(Date(current_year + 2, 3, 4))}

\* no scan_receipt call runs beside the extraction
ScannerIdle ==
    /\ env = [h |-> 1, w |-> 1, persp |-> "none", dflt |-> Raises, anomaly |-> NoAnomaly]
    /\ easyocr_available = FALSE
    /\ pc = "off"
    /\ fast_mode = FALSE
    /\ save_processed = FALSE
    /\ image = None
    /\ processed_images = << >>
    /\ ocr_results = << >>
    /\ best_result = None
    /\ attempted = << >>
    /\ history = [m \in Modes |-> None]
    /\ StoreIdle
    /\ CallerIdle
    /\ GeometryIdle

InitExtract ==
    /\ text \in Texts
    /\ parsed \in ParserAnswers
    /\ now = Today
    /\ earlier = None
    /\ step = "clean"
    /\ cleaned_text = EmptyText
    /\ result = ExtractedData
    /\ ScannerIdle

\* lines 77-81
CleanText ==
    /\ step = "clean"
    /\ cleaned_text' = clean_text(text)
    /\ result' = [ExtractedData EXCEPT !.raw_text = text]
    /\ step' = "merchant"
    /\ UNCHANGED <<text, parsed, now, earlier, scanner, store, caller, geometry>>

\* line 84
ExtractMerchant ==
    /\ step = "merchant"
    /\ result' = [result EXCEPT !.merchant = extract_merchant_enhanced(cleaned_text)]
    /\ step' = "date"
    /\ UNCHANGED <<text, parsed, now, earlier, cleaned_text, scanner, store, caller, geometry>>

\* line 87
ExtractDate ==
    /\ step = "date"
    /\ result' = [result EXCEPT
                    !.date = extract_date_enhanced(cleaned_text, parsed, now)]
    /\ step' = "amounts"
    /\ UNCHANGED <<text, parsed, now, earlier, cleaned_text, scanner, store, caller, geometry>>

\* lines 90-93
ExtractAmounts ==
    /\ step = "amounts"
    /\ result' = Let(extract_amounts_enhanced(cleaned_text), LAMBDA amounts :
                      [result EXCEPT !.total = amounts.total,
                                     !.subtotal = amounts.subtotal,
                                     !.tax = amounts.tax])
    /\ step' = "items"
    /\ UNCHANGED <<text, parsed, now, earlier, cleaned_text, scanner, store, caller, geometry>>

\* line 96
ExtractItems ==
    /\ step = "items"
    /\ result' = [result EXCEPT !.items = Some(extract_items_enhanced(cleaned_text))]
    /\ step' = "additional"
    /\ UNCHANGED <<text, parsed, now, earlier, cleaned_text, scanner, store, caller, geometry>>

\* lines 99-100
ExtractAdditional ==
    /\ step = "additional"
    /\ result' = [result EXCEPT !.receipt_number = extract_receipt_number(cleaned_text),
                                !.payment_method = extract_payment_method(cleaned_text)]
    /\ step' = "confidence"
    /\ UNCHANGED <<text, parsed, now, earlier, cleaned_text, scanner, store, caller, geometry>>

\* line 103
CalculateConfidence ==
    /\ step = "confidence"
    /\ result' = [result EXCEPT !.confidence_score = calculate_extraction_confidence(result)]
    /\ step' = "validate"
    /\ UNCHANGED <<text, parsed, now, earlier, cleaned_text, scanner, store, caller, geometry>>

\* lines 106-108: the record is returned
ValidateAndCorrect ==
    /\ step = "validate"
    /\ result' = validate_and_correct(result)
    /\ step' = "returned"
    /\ UNCHANGED <<text, parsed, now, earlier, cleaned_text, scanner, store, caller, geometry>>

NextExtract ==
    \/ CleanText
    \/ ExtractMerchant
    \/ ExtractDate
    \/ ExtractAmounts
    \/ ExtractItems
    \/ ExtractAdditional
    \/ CalculateConfidence
    \/ ValidateAndCorrect

SpecExtract == InitExtract /\ [][NextExtract]_vars

(***************************************************************************)
(* extract_data called twice on one text while the clock advances.         *)
(***************************************************************************)
\* texts that hold a date
DateTexts ==
    {<<"3", "1", "/", "1", "2", "/", "2", "9", "9", "9">>,
     <<"3", "1", "/", "1", "2", "/", "2", "7", "9", "9">>,
     <<"D", "a", "t", "e", ":", " ", "3", "1", "/", "1", "2", "/", "2", "9", "9", "9">>,
     <<"d", "a", "t", "e", " ", "7">>,
     <<"4", "/", "1", "1", "/", "2", "6">>,
     <<"1", "2", "/", "1", "1", "/", "2", "0", "2", "6">>,
     <<"a", "b", "c">>}

\* the years the clock runs through after current_year
ClockYears == 2

Clocks == {[Today EXCEPT !.year = y] : y \in current_year..(current_year + ClockYears)}

InitClock ==
    /\ text \in DateTexts
    /\ parsed \in ParserAnswers
    /\ now \in Clocks
    /\ earlier = None
    /\ step = "clean"
    /\ cleaned_text = EmptyText
    /\ result = ExtractedData
    /\ ScannerIdle

\* a second extract_data(text) on the same extractor, at the same time or later
CallAgain ==
    /\ step = "returned"
    /\ earlier = None
    /\ earlier' = Some(result)
    /\ \E later \in Clocks : later.year >= now.year /\ now' = later
    /\ step' = "clean"
    /\ cleaned_text' = EmptyText
    /\ result' = ExtractedData
    /\ UNCHANGED <<text, parsed, scanner, store, caller, geometry>>

NextClock ==
    \/ CleanText
    \/ ExtractMerchant
    \/ ExtractDate
    \/ ExtractAmounts
    \/ ExtractItems
    \/ ExtractAdditional
    \/ CalculateConfidence
    \/ ValidateAndCorrect
    \/ CallAgain

SpecClock == InitClock /\ [][NextClock]_vars

(***************************************************************************)
(* Two scan_receipt calls on one scanner, side by side.                    *)
(***************************************************************************)
ScanIds == {1, 2}

\* the image paths of the calls: two of them differ in the directory only
Paths == {Path("a", "r1", ".jpg"), Path("b", "r1", ".jpg"), Path("a", "r2", ".jpg")}

\* the images of the calls: readable, without a quadrilateral for the
\* perspective correction, every OCR call reading a text on them
ScanEnvs ==
    {e \in Envs : /\ e.anomaly = NoAnomaly
                  /\ e.h = MaxDim /\ e.w = MaxDim
                  /\ e.persp = "none"
                  /\ ~e.dflt.raises /\ e.dflt.text # EmptyText /\ e.dflt.conf > 0}

\* the arguments and the locals of a call that starts
NewScan(path, e, sp, fm) ==
    [pc |-> "load", image_path |-> path, env |-> e, save_processed |-> sp, fast_mode |-> fm,
     processed_images |-> << >>, ocr_results |-> << >>, saved |-> 0,
     returned |-> None, exc |-> None]

InitScans ==
    /\ scans \in [ScanIds -> {NewScan(path, e, sp, fm) :
                                 path \in Paths, e \in ScanEnvs, sp \in BOOLEAN, fm \in BOOLEAN}]
    /\ disk = NoFiles
    /\ easyocr_available \in BOOLEAN
    /\ env = [h |-> 1, w |-> 1, persp |-> "none", dflt |-> Raises, anomaly |-> NoAnomaly]
    /\ pc = "off"
    /\ fast_mode = FALSE
    /\ save_processed = FALSE
    /\ image = None
    /\ processed_images = << >>
    /\ ocr_results = << >>
    /\ best_result = None
    /\ attempted = << >>
    /\ history = [m \in Modes |-> None]
    /\ ExtractorIdle
    /\ CallerIdle
    /\ GeometryIdle

\* lines 93-132 of the call c: load, crop and the variants
ScanPreprocess(c) ==
    /\ scans[c].pc = "load"
    /\ scans' = [scans EXCEPT ![c] =
                    IF PreprocessRaises(scans[c].env,
                                        Cropped([h |-> scans[c].env.h, w |-> scans[c].env.w]))
                    THEN [scans[c] EXCEPT !.pc = "done", !.exc = Some("cv2.error")]
                    ELSE [scans[c] EXCEPT
                              !.pc = "ocr",
                              !.processed_images =
                                  Variants(scans[c].fast_mode, scans[c].env.persp = "found")]]
    /\ UNCHANGED <<scanner, extractor, disk, caller, geometry>>

\* the results of the EasyOCR block of a call with the locals s
EasyOcrResults(s) ==
    Let(EasyVariants(s.fast_mode, s.processed_images), LAMBDA vs :
        ResultsUpToRaise(s.env, [i \in 1..Len(vs) |-> Combo("easyocr", "-", vs[i])],
                         IF s.fast_mode THEN "easyocr_fast" ELSE "easyocr"))

\* lines 134-198 of the call c: Tesseract, then EasyOCR if available
ScanOcr(c) ==
    /\ scans[c].pc = "ocr"
    /\ scans' = [scans EXCEPT ![c] =
                    [scans[c] EXCEPT
                         !.pc = IF scans[c].save_processed THEN "save" ELSE "select",
                         !.ocr_results =
                             Guarded(scans[c].env, Cross(ConfigItems(scans[c].fast_mode),
                                                         scans[c].processed_images))
                             \o (IF easyocr_available THEN EasyOcrResults(scans[c])
                                 ELSE << >>)]]
    /\ UNCHANGED <<scanner, extractor, disk, caller, geometry>>

\* lines 442-444 of the call c: one cv2.imwrite of the loop
ScanSave(c) ==
    /\ scans[c].pc = "save"
    /\ disk' = ImWrite(disk, scans[c].image_path,
                       scans[c].processed_images[scans[c].saved + 1])
    /\ scans' = [scans EXCEPT ![c] =
                    [scans[c] EXCEPT
                         !.saved = scans[c].saved + 1,
                         !.pc = IF scans[c].saved + 1 = Len(scans[c].processed_images)
                                THEN "select" ELSE "save"]]
    /\ UNCHANGED <<scanner, extractor, caller, geometry>>

\* the record lines 204-218 return for the results rs
RecordOf(rs) ==
    IF BestOf(rs) = None THEN [ExtractedData EXCEPT !.raw_text = OCR_FAILED]
    ELSE [Extracted[Val(BestOf(rs)).text] EXCEPT
              !.raw_text = Val(BestOf(rs)).text,
              !.confidence_score = Val(BestOf(rs)).confidence]

\* lines 204-218 of the call c: the best result and its fields
ScanReturn(c) ==
    /\ scans[c].pc = "select"
    /\ scans' = [scans EXCEPT ![c] =
                    [scans[c] EXCEPT !.pc = "done",
                                     !.returned = Some(RecordOf(scans[c].ocr_results))]]
    /\ UNCHANGED <<scanner, extractor, disk, caller, geometry>>

NextScans ==
    \/ \E c \in ScanIds : ScanPreprocess(c)
    \/ \E c \in ScanIds : ScanOcr(c)
    \/ \E c \in ScanIds : ScanSave(c)
    \/ \E c \in ScanIds : ScanReturn(c)

SpecScans == InitScans /\ [][NextScans]_vars

(***************************************************************************)
(* Properties of scan_receipt (checked under Spec).                        *)
(***************************************************************************)
\* the finished call of mode m
Done(m) == history[m] # None
Call(m) == Val(history[m])

\* the call of mode m ran its OCR phase and returned
Returned(m) == Done(m) /\ Call(m).exc = None /\ Call(m).returned # None

\* the combinations scan_receipt is to run in mode m on the variants vs
Planned(m, vs) ==
    Cross(ConfigItems(m = "fast"), vs)
    \o (IF easyocr_available
        THEN LET ev == EasyVariants(m = "fast", vs)
             IN [i \in 1..Len(ev) |-> Combo("easyocr", "-", ev[i])]
        ELSE << >>)

\* the method under which the result of combination c is filed in mode m
MethodOf(m, c) ==
    IF c.engine = "tesseract" THEN <<c.engine, c.config, c.variant>>
    ELSE <<IF m = "fast" THEN "easyocr_fast" ELSE "easyocr", c.variant>>

\* no field of the record is populated: each is None, the items None or empty
NoFieldPopulated(r) ==
    /\ r.merchant = None /\ r.date = None /\ r.total = None /\ r.subtotal = None
    /\ r.tax = None /\ ~Filled(r.items) /\ r.payment_method = None
    /\ r.receipt_number = None

\* C1: every finished scan_receipt call either returned a record or raised the
\* unreadable-image ValueError; no other exception leaves the call.
C1_OnlyUnreadableImageRaises ==
    \A m \in Modes :
        Done(m) => \/ Call(m).exc = None /\ Call(m).returned # None
                   \/ Call(m).exc = Some("ValueError") /\ Call(m).returned = None

\* C2: when a scan made OCR calls and each of them raised or returned empty
\* text, the call did not raise and returned a record with empty raw_text,
\* confidence_score 0 and no extracted field populated.
C2_AllFailedGivesEmptyRecord ==
    \A m \in Modes :
        (/\ Done(m)
         /\ Call(m).attempted # << >>
         /\ \A i \in 1..Len(Call(m).ocr_results) : Call(m).ocr_results[i].text = EmptyText)
        => /\ Returned(m)
           /\ Val(Call(m).returned).raw_text = EmptyText
           /\ Val(Call(m).returned).confidence_score = 0
           /\ NoFieldPopulated(Val(Call(m).returned))

\* the place of x in the sequence seq
PosIn(seq, x) == CHOOSE i \in 1..Len(seq) : seq[i] = x

\* the place of a result in production order: Tesseract results config-major,
\* variant-minor, then the EasyOCR results
Rank(vs, method) ==
    IF method[1] = "tesseract"
    THEN PosIn(tesseract_configs, method[2]) * (Len(vs) + 1) + PosIn(vs, method[3])
    ELSE (Len(tesseract_configs) + 1) * (Len(vs) + 1) + PosIn(vs, method[2])

\* C3: a scan that produced results selected exactly one of them: none has a
\* greater confidence, every result produced before it has a smaller one, and
\* the results stand in production order (Tesseract config-major and
\* variant-minor, then EasyOCR).
C3_FirstOfGreatestSelected ==
    \A m \in Modes :
        (Done(m) /\ Call(m).ocr_results # << >> /\ Call(m).exc = None)
        => LET rs == Call(m).ocr_results
               vs == Call(m).processed_images
           IN /\ Call(m).best_result # None
              /\ \E k \in 1..Len(rs) :
                    /\ rs[k] = Val(Call(m).best_result)
                    /\ \A j \in 1..Len(rs) : rs[j].confidence <= rs[k].confidence
                    /\ \A j \in 1..(k - 1) : rs[j].confidence < rs[k].confidence
              /\ \A i \in 1..(Len(rs) - 1) :
                    Rank(vs, rs[i].method) < Rank(vs, rs[i + 1].method)
              /\ Val(Call(m).returned).raw_text = Val(Call(m).best_result).text

\* a scan selected the first of several results of the greatest confidence
C3_Witness ==
    \E m \in Modes :
        /\ Returned(m)
        /\ Call(m).best_result # None
        /\ \E i, j \in 1..Len(Call(m).ocr_results) :
              /\ i < j
              /\ Call(m).ocr_results[i] = Val(Call(m).best_result)
              /\ Call(m).ocr_results[j].confidence = Val(Call(m).best_result).confidence
        /\ \E i \in 1..Len(Call(m).ocr_results) :
              Call(m).ocr_results[i].confidence < Val(Call(m).best_result).confidence

\* C4: when exactly one of the combinations of a scan raises, every other
\* combination has its result in the result set and the scan returns.
C4_OnlyRaisingCombinationMissing ==
    \A m \in Modes :
        (/\ Done(m)
         /\ Call(m).processed_images # << >>
         /\ Cardinality({c \in SeqToSet(Planned(m, Call(m).processed_images)) :
                            OcrOutcome(env, c).raises}) = 1)
        => /\ Returned(m)
           /\ \A c \in SeqToSet(Planned(m, Call(m).processed_images)) :
                 ~OcrOutcome(env, c).raises
                 => \E i \in 1..Len(Call(m).ocr_results) :
                       Call(m).ocr_results[i].method = MethodOf(m, c)

\* C5: the confidence_score of the record a scan returns is the composite the
\* extractor computes from the populated fields of the best text.
C5_ScoreIsExtractorComposite ==
    \A m \in Modes :
        (Returned(m) /\ Call(m).best_result # None)
        => Val(Call(m).returned).confidence_score
              = Extracted[Val(Call(m).best_result).text].confidence_score

\* C7: on one image, with one EasyOCR availability and one outcome of the
\* perspective detection, the fast call makes no more OCR attempts than the
\* full call.
C7_FastAttemptsAtMostFull ==
    (Done("fast") /\ Done("full"))
    => Len(Call("fast").attempted) <= Len(Call("full").attempted)

\* both calls ran their OCR phase, the fast one on perspective variants too
C7_Witness ==
    /\ Done("fast") /\ Done("full")
    /\ Len(Call("fast").attempted) > Len(preferred_configs) * 2 + 1
    /\ Len(Call("full").attempted) > Len(Call("fast").attempted)
    /\ easyocr_available

\* C8: every combination attempted in fast mode is attempted in full mode on
\* the same image, and the best confidence of the fast call does not exceed
\* that of the full call.
C8_FastCombinationsWithinFull ==
    (Done("fast") /\ Done("full"))
    => /\ SeqToSet(Call("fast").attempted) \subseteq SeqToSet(Call("full").attempted)
       /\ (Call("fast").best_result # None /\ Call("full").best_result # None)
          => Val(Call("fast").best_result).confidence
                <= Val(Call("full").best_result).confidence

\* the EasyOCR calls among the calls cs
EasyCalls(cs) == SelectSeq(cs, LAMBDA c : c.engine = "easyocr")

\* the results of EasyOCR among the results rs
EasyResults(rs) == SelectSeq(rs, LAMBDA r : r.method[1] # "tesseract")

\* C16: while self.easyocr_available is False no call, running or finished,
\* has invoked EasyOCR or holds a result of it, and a call that got past the
\* preprocessing returned; no step of a scan changes the flag.
C16_UnavailableEasyOcrNeverRuns ==
    /\ [](~easyocr_available
           => /\ EasyCalls(attempted) = << >> /\ EasyResults(ocr_results) = << >>
              /\ \A m \in Modes :
                    Done(m) => /\ EasyCalls(Call(m).attempted) = << >>
                               /\ EasyResults(Call(m).ocr_results) = << >>
                               /\ Call(m).processed_images # << >> => Returned(m))
    /\ [][easyocr_available' = easyocr_available]_vars

\* without EasyOCR both calls ran their Tesseract loop and returned
C16_Witness ==
    /\ ~easyocr_available
    /\ \A m \in Modes : Returned(m) /\ Call(m).attempted # << >>

\* no OCR call planned for mode m on the variants vs raises
NoneRaises(m, vs) == \A c \in SeqToSet(Planned(m, vs)) : ~OcrOutcome(env, c).raises

\* C18: a full-mode call in which no OCR call raises holds one result for
\* each of the six configurations on each variant and, with EasyOCR, one more
\* for each variant, and nothing else; the method strings differ pairwise;
\* the selected result is one of them and none has a greater confidence.
C18_FullModeOneResultPerCombination ==
    (Done("full") /\ Call("full").processed_images # << >>
     /\ NoneRaises("full", Call("full").processed_images))
    => LET rs == Call("full").ocr_results
           vs == Call("full").processed_images
       IN /\ Returned("full")
          /\ Len(rs) = Len(tesseract_configs) * Len(vs)
                        + (IF easyocr_available THEN Len(vs) ELSE 0)
          /\ \A k \in 1..Len(tesseract_configs), v \in 1..Len(vs) :
                Cardinality({i \in 1..Len(rs) :
                               rs[i].method = <<"tesseract", tesseract_configs[k], vs[v]>>}) = 1
          /\ easyocr_available
             => \A v \in 1..Len(vs) :
                   Cardinality({i \in 1..Len(rs) : rs[i].method = <<"easyocr", vs[v]>>}) = 1
          /\ Cardinality({MethodLabel(rs[i].method) : i \in 1..Len(rs)}) = Len(rs)
          /\ \E i \in 1..Len(rs) : rs[i] = Val(Call("full").best_result)
          /\ \A i \in 1..Len(rs) :
                rs[i].confidence <= Val(Call("full").best_result).confidence

\* a full-mode call with EasyOCR and the perspective variant, no call raising
\* and some call returning an empty text
C18_Witness ==
    /\ Returned("full")
    /\ easyocr_available
    /\ "perspective" \in SeqToSet(Call("full").processed_images)
    /\ NoneRaises("full", Call("full").processed_images)
    /\ \E i \in 1..Len(Call("full").ocr_results) :
          Call("full").ocr_results[i].text = EmptyText

\* C19: a fast-mode call in which no OCR call raises makes as many engine
\* invocations as a fast-mode call on the two variants generated without the
\* perspective correction, and it invokes EasyOCR at most once, on the
\* standard variant.
C19_FastCallsIndependentOfVariants ==
    (Done("fast") /\ Call("fast").processed_images # << >>
     /\ NoneRaises("fast", Call("fast").processed_images))
    => /\ EngineCalls(env, Call("fast").attempted)
             = EngineCalls(env, Planned("fast", FastVariants(FALSE)))
       /\ Len(EasyCalls(Call("fast").attempted)) <= 1
       /\ \A i \in 1..Len(Call("fast").attempted) :
             Call("fast").attempted[i].engine = "easyocr"
             => Call("fast").attempted[i].variant = "standard"

\* C20: the image handed to the preprocessing has a height and a width above 0.
C20_CropLeavesImage ==
    pc = "preprocess" => Val(image).h > 0 /\ Val(image).w > 0

(***************************************************************************)
(* Properties of extract_data (checked under SpecExtract).                 *)
(***************************************************************************)
\* none of the fields the score counts is populated
NoScoredField(r) ==
    /\ ~Filled(r.merchant) /\ ~Filled(r.date) /\ ~Truthy(r.total) /\ ~Truthy(r.tax)
    /\ ~Filled(r.items) /\ ~Filled(r.receipt_number)

\* C6, as stated: the score of the returned record lies in [0,1], it is 0
\* exactly when no field is populated and the text is empty, and for the
\* empty text no field is populated and the score is 0.
C6_ZeroScoreOnlyForEmptyText ==
    step = "returned"
    => /\ 0 <= result.confidence_score /\ result.confidence_score <= Scale
       /\ result.confidence_score = 0 <=> (NoFieldPopulated(result) /\ text = EmptyText)
       /\ text = EmptyText => (NoFieldPopulated(result) /\ result.confidence_score = 0)

\* C6: the score of the returned record lies in [0,1]; it is 0 exactly when
\* none of merchant, date, total, tax, items and receipt number is populated,
\* whatever the text; for the empty text no field is populated and the score
\* is 0.
C6_ZeroScoreWithoutScoredField ==
    step = "returned"
    => /\ 0 <= result.confidence_score /\ result.confidence_score <= Scale
       /\ result.confidence_score = 0 <=> NoScoredField(result)
       /\ text = EmptyText => (NoFieldPopulated(result) /\ result.confidence_score = 0)

\* a text that is not empty was scored 0 with the payment method populated
C6_Witness ==
    /\ step = "returned"
    /\ text # EmptyText
    /\ result.confidence_score = 0
    /\ result.payment_method # None

\* an amount is None or above 0 and at most MaxTotal
SaneAmount(a) == a = None \/ (0 < Val(a) /\ Val(a) <= MaxTotal * Scale)

\* C9: in the returned record each of total, tax and subtotal is None or
\* greater than 0 and at most 100000.
C9_AmountsWithinBound ==
    step = "returned"
    => SaneAmount(result.total) /\ SaneAmount(result.tax) /\ SaneAmount(result.subtotal)

\* C10: every item of the returned record has a trimmed name that is not
\* empty, a quantity above 0 and a unit price and a total price of at least 0.
C10_ItemsWellFormed ==
    step = "returned"
    => \A i \in 1..Len(Val(result.items)) :
          LET item == Val(result.items)[i]
          IN /\ item.name # EmptyText
             /\ item.name = Strip(item.name)
             /\ item.quantity > 0
             /\ item.unit_price >= 0
             /\ item.total_price >= 0

\* the item an item line stands for
ItemOf(l) ==
    Item(l.name, ParseFloat(l.quantity), ParseFloat(l.unit_price), ParseFloat(l.total_price))

TwoLines(a, b) == LineText(a) \o <<"\n">> \o LineText(b)

\* C11: no two items of the returned record have names equal ignoring case,
\* and for a text of two item lines that carry the same name ignoring case
\* the items are the item of the first line alone.
C11_FirstOccurrenceKept ==
    step = "returned"
    => /\ \A i, j \in 1..Len(Val(result.items)) :
             i # j => Lower(Val(result.items)[i].name) # Lower(Val(result.items)[j].name)
       /\ \A a, b \in ItemLines :
             (text = TwoLines(a, b) /\ Lower(a.name) = Lower(b.name))
             => result.items = Some(<<ItemOf(a)>>)

\* C13: for a text that is a labelled total, "TOTAL: ", a currency sign and an
\* amount within the accepted range, the returned total is that amount with
\* its decimal digits.
C13_LabelledTotalRoundTrip ==
    step = "returned"
    => \A sign \in CurrencySigns, amount \in TotalAmounts :
          text = TotalText(sign, amount) => result.total = Some(ParseFloat(amount))

\* C14: for a text of two item lines with different names the returned items
\* are two, the first with the quantity and the unit price of the first line
\* and the second with those of the second line.
C14_OneItemPerLine ==
    step = "returned"
    => \A a, b \in ItemLines :
          (text = TwoLines(a, b) /\ Lower(a.name) # Lower(b.name))
          => /\ Len(Val(result.items)) = 2
             /\ Val(result.items)[1].quantity = ParseFloat(a.quantity)
             /\ Val(result.items)[1].unit_price = ParseFloat(a.unit_price)
             /\ Val(result.items)[2].quantity = ParseFloat(b.quantity)
             /\ Val(result.items)[2].unit_price = ParseFloat(b.unit_price)


(***************************************************************************)
(* Properties of repeated extract_data calls (checked under SpecClock).    *)
(***************************************************************************)
\* the year of a date string YYYY-MM-DD
YearOf(date) == IntOf(SubSeq(date, 1, 4))

\* C12: extract_data never returns a date whose year lies outside
\* [2000, currentYear + 1], and for the text "31/12/2999" the date is null
\* whatever the clock is: no date is made from a part of that string.
C12_NoDateOutsideBand ==
    step = "returned" =>
        /\ result.date # None =>
               MinYear <= YearOf(Val(result.date)) /\ YearOf(Val(result.date)) <= now.year + 1
        /\ text = <<"3", "1", "/", "1", "2", "/", "2", "9", "9", "9">> => result.date = None

\* C15: two extract_data calls with the same text return the same record,
\* whatever call came before and whenever the calls are made.
C15_SameTextSameRecord ==
    (step = "returned" /\ earlier # None) => result = Val(earlier)


(***************************************************************************)
(* Properties of calls side by side (checked under SpecScans).             *)
(***************************************************************************)
\* the files the call c has written
FilesOf(c) ==
    {SavePath(scans[c].image_path, scans[c].processed_images[k]) : k \in 1..scans[c].saved}

\* C17: two scan_receipt calls that run side by side share no mutable
\* resource: no file is written by both of them, and a file a finished call
\* saved holds the variant of that call's image.
C17_ScansShareNothing ==
    \A c, d \in ScanIds :
        c # d =>
            /\ FilesOf(c) \cap FilesOf(d) = {}
            /\ scans[c].pc = "done" =>
                   \A f \in FilesOf(c) : disk[f].of = scans[c].image_path

(***************************************************************************)
(* The merchant, the amounts and the items of extract_data.                *)
(***************************************************************************)
\* the entries of known_merchants whose name occurs in the text t, whatever
\* the case of its letters
KnownIn(t) == {k \in 1..Len(known_merchants) : Contains(Upper(t), known_merchants[k][1])}

\* the merchant step of the running call is over
MerchantDone == step \notin {"clean", "merchant"}

\* C21: when a name of the known-merchant table occurs in the text, the
\* merchant of the record is the canonical name of such an entry, and the
\* merchant is null only when the table, the patterns and the first
\* meaningful line all fail on the cleaned text.
C21_KnownMerchantWins ==
    MerchantDone
    => /\ KnownIn(text) # {}
          => \E k \in KnownIn(text) : result.merchant = Some(known_merchants[k][2])
       /\ result.merchant = None
          => Let(SplitLines(cleaned_text), LAMBDA lines :
                 /\ KnownMerchant(Take(lines, KnownLines)) = None
                 /\ PatternMerchant(cleaned_text, 1) = None
                 /\ FirstMeaningful(Take(lines, MeaningfulLines)) = None)

\* the amounts step of the running call is just over
AmountsDone == step = "items"

\* the total patterns that match the line, whatever the case of its letters
LabelsOf(line) == {k \in 1..Len(total_patterns) : Search(total_patterns[k], Lower(line)) # NoMatch}

\* the amount the earliest-listed matching pattern reads on the line
LabelAmount(line) ==
    LET k == CHOOSE i \in LabelsOf(line) : \A j \in LabelsOf(line) : i <= j
    IN ParseFloat(LastGroup(Lower(line), Search(total_patterns[k], Lower(line))))

\* the lines of s that match a total pattern
LabelledLines(s) == {n \in 1..Len(SplitLines(s)) : LabelsOf(SplitLines(s)[n]) # {}}

\* C22: when a line of the text matches a total pattern, and the amount the
\* earliest-listed pattern reads on the last such line lies in [1, 100000],
\* that amount is the extracted total.
C22_LastLabelledLineGivesTotal ==
    (AmountsDone /\ LabelledLines(text) # {})
    => LET n == CHOOSE i \in LabelledLines(text) : \A j \in LabelledLines(text) : j <= i
           amount == LabelAmount(SplitLines(text)[n])
       IN (MinTotal * Scale <= amount /\ amount <= MaxTotal * Scale)
          => result.total = Some(amount)

\* the amounts within the fallback range that stand on the last lines of s
FallbackAmounts(s) ==
    LET lines == SplitLines(s)
        lo == IF Len(lines) > FallbackLines THEN Len(lines) - FallbackLines + 1 ELSE 1
        found == UNION {SeqToSet(FindAll(AnyAmount, lines[n], 0)) : n \in lo..Len(lines)}
    IN {a \in {ParseFloat(str) : str \in found} :
            MinFallbackTotal * Scale <= a /\ a <= MaxTotal * Scale}

\* C23: when no line of the text matches a total pattern, the extracted total
\* is the largest amount within [10, 100000] on the last 10 lines, and null
\* when these lines hold no such amount.
C23_FallbackGivesLargest ==
    (AmountsDone /\ LabelledLines(text) = {})
    => IF FallbackAmounts(text) = {} THEN result.total = None
       ELSE \E a \in FallbackAmounts(text) :
               /\ result.total = Some(a)
               /\ \A b \in FallbackAmounts(text) : b <= a

\* the names of the breakdown components
GstNames == {<<"c", "g", "s", "t">>, <<"s", "g", "s", "t">>, <<"i", "g", "s", "t">>}

\* the lines of s on which a breakdown component matches
BreakdownLines(s) ==
    {n \in 1..Len(SplitLines(s)) : \E name \in GstNames : GstFound(name, Lower(SplitLines(s)[n]))}

\* the sum of the amounts of the breakdown components matched on lines[k..]
RECURSIVE BreakdownSum(_, _)
BreakdownSum(lines, k) ==
    IF k > Len(lines) THEN 0
    ELSE GstAmount(<<"c", "g", "s", "t">>, Lower(lines[k]))
         + GstAmount(<<"s", "g", "s", "t">>, Lower(lines[k]))
         + GstAmount(<<"i", "g", "s", "t">>, Lower(lines[k]))
         + BreakdownSum(lines, k + 1)

\* C24: when a line of the text is a CGST, SGST or IGST breakdown line, the
\* extracted tax is the sum of the amounts of all breakdown components matched
\* on all lines; without such a line and without a line of the labelled tax
\* pattern there is no tax.
C24_TaxIsBreakdownSum ==
    AmountsDone
    => /\ BreakdownLines(text) # {}
          => result.tax = Some(BreakdownSum(SplitLines(text), 1))
       /\ (/\ BreakdownLines(text) = {}
           /\ \A n \in 1..Len(SplitLines(text)) :
                 Search(TotalTaxLine, Lower(SplitLines(text)[n])) = NoMatch)
          => result.tax = None

\* the items step of the running call is over
ItemsDone == step \in {"additional", "confidence", "validate", "returned"}

\* C25: for every item of the record, quantity times unit price differs from
\* the line total by less than max(1.0, a tenth of the line total); an item
\* of assumed quantity 1.0 satisfies this by construction.
C25_ItemsPassConsistencyCheck ==
    ItemsDone
    => \A i \in 1..Len(Val(result.items)) :
          Let(Val(result.items)[i], LAMBDA item :
              QtyRateAgree(item.quantity, item.unit_price, item.total_price))

\* C26: when the validation starts on a record with items and a total, and
\* the sum of the items' total prices is within 5 of that total, the total of
\* the returned record is the sum of the items.
C26_ItemsSumBecomesTotal ==
    [][(/\ ValidateAndCorrect
        /\ Filled(result.items)
        /\ result.total # None
        /\ Abs(SumPrices(Val(result.items)) - Val(result.total)) < ItemsTolerance * Scale)
       => result'.total = Some(SumPrices(Val(result.items)))]_vars

\* the fields of the record
Fields == DOMAIN ExtractedData

\* C27: the validation changes no field but the total, changes the total only
\* when there was one, and leaves null every field that was null.
C27_ValidationChangesOnlyTotal ==
    [][ValidateAndCorrect
       => /\ \A f \in Fields \ {"total"} : result'[f] = result[f]
          /\ result.total = None => result'.total = None
          /\ \A f \in Fields \ {"confidence_score"} : result[f] = None => result'[f] = None]_vars

\* a record whose total the validation replaced by the sum of its items,
\* while it has neither date nor tax
C27_Witness ==
    /\ step = "returned"
    /\ Filled(result.items)
    /\ result.total = Some(SumPrices(Val(result.items)))
    /\ result.total # extract_amounts_enhanced(cleaned_text).total
    /\ result.date = None /\ result.tax = None

(***************************************************************************)
(* The text scan_receipt selects.                                          *)
(***************************************************************************)
\* C28: when a result of a scan holds a non-empty text, the result the scan
\* selects for the field extraction holds a non-empty text.
C28_NonEmptyTextSelected ==
    \A m \in Modes :
        (/\ Done(m)
         /\ Call(m).exc = None
         /\ \E i \in 1..Len(Call(m).ocr_results) : Call(m).ocr_results[i].text # EmptyText)
        => /\ Call(m).best_result # None
           /\ Val(Call(m).best_result).text # EmptyText

(***************************************************************************)
(* process_ocr on an uploaded image (src/app.py).                          *)
(***************************************************************************)
\* the texts pytesseract reads in the basic processing
BasicTexts ==
    {EmptyText,
     <<"a", "b", "c">>,
     <<"Q", "t", "y", ":", " ", "i", "Y", " ", "1", "0", "9", "5", ".", "8", "5">>,
     <<"T", "O", "T", "A", "L", " ", "1", "2", "\n", "B", "i", "l", "l", " ", "D", "t", ":", " ", "0", "4", "/", "1", "1", "/", "2", "0", "2", "6">>,
     <<"t", "o", "t", "a", "l", " ", "7">>,
     <<Rupee, " ", "9", "9", ".", "5", "0", " ", "r", "s", " ", "1", "1", "0", "0", ".", "2", "5">>,
     <<"1", "2", "3", ".", "4", "5", " ", "2", "0", "2", "6", "-", "1", "1", "-", "0", "4">>,
     <<" ", "x", " ", "\n", "\n", " ", "y", " ">>}

\* what cv2 and pytesseract do on the image in the basic processing:
\* cv2.imread returns None, a call raises, or pytesseract reads a text
Pages ==
    {[kind |-> "unreadable", text |-> EmptyText], [kind |-> "raises", text |-> EmptyText]}
    \cup {[kind |-> "text", text |-> t] : t \in BasicTexts}

\* a Python value with its type: an instance of the dataclass ExtractedData
\* with its fields, or a dictionary with its keys
Instance(fields) == [type |-> "ExtractedData", fields |-> fields]

\* what scan_receipt does: it raises, or returns an ExtractedData
ScanOutcomes ==
    {[raises |-> TRUE, exc |-> x, value |-> Instance(ExtractedData)] :
        x \in {"ValueError", "cv2.error"}}
    \cup {[raises |-> FALSE, exc |-> "-",
           value |-> Instance([ExtractedData EXCEPT !.raw_text = OCR_FAILED])]}
    \cup {[raises |-> FALSE, exc |-> "-",
           value |-> Instance([Extracted[t] EXCEPT !.raw_text = t, !.confidence_score = c])] :
             t \in OcrTexts, c \in ConfLevels}

\* the dictionary of the except branch; the message is the exception's
Error(e) == [error |-> e]

\* bool(value): an empty dictionary is false; an instance of a class that
\* defines neither __bool__ nor __len__ is true
TruthOf(value) == IF value.type = "dict" THEN DOMAIN value.fields # {} ELSE TRUE

\* `key in value`: the keys of a dictionary; an instance of a class that
\* defines none of __contains__, __iter__, __getitem__ raises TypeError
KeyIn(key, value) ==
    IF value.type = "dict"
    THEN [raises |-> FALSE, exc |-> "-", holds |-> key \in DOMAIN value.fields]
    ELSE [raises |-> TRUE, exc |-> "TypeError", holds |-> FALSE]

\* d.get(key, default)
Get(d, key, default) == IF key \in DOMAIN d THEN d[key] ELSE default

\* lines 70-80: the result of the enhanced scanner in the expected structure
FormattedResult(d) ==
    [raw_text |-> Get(d, "raw_text", EmptyText),
     lines |-> IF Get(d, "raw_text", EmptyText) # EmptyText
               THEN SplitLines(Get(d, "raw_text", EmptyText)) ELSE << >>,
     method |-> <<"enhanced", Get(d, "best_method", "unknown")>>,
     status |-> "processed",
     confidence |-> Get(d, "confidence_score", 0),
     total |-> Get(d.extracted_data, "total_amount", None),
     date |-> Get(d.extracted_data, "date", None),
     merchant |-> Get(d.extracted_data, "merchant_name", "Unknown Merchant"),
     items |-> Get(d.extracted_data, "items", << >>)]

InitApp ==
    /\ SCANNER_AVAILABLE \in {"enhanced", "basic"}
    /\ scan_outcome \in ScanOutcomes
    /\ page \in Pages
    /\ scan_outcome.exc = "ValueError" => page.kind = "unreadable"
    /\ ocr_pc = "start"
    /\ receipt_data = None
    /\ env = [h |-> 1, w |-> 1, persp |-> "none", dflt |-> Raises, anomaly |-> NoAnomaly]
    /\ easyocr_available = FALSE
    /\ pc = "off"
    /\ fast_mode = FALSE
    /\ save_processed = FALSE
    /\ image = None
    /\ processed_images = << >>
    /\ ocr_results = << >>
    /\ best_result = None
    /\ attempted = << >>
    /\ history = [m \in Modes |-> None]
    /\ StoreIdle
    /\ ExtractorIdle
    /\ GeometryIdle

\* line 60: the enhanced scanner if it was imported, else the basic processing
ChooseScanner ==
    /\ ocr_pc = "start"
    /\ ocr_pc' = IF SCANNER_AVAILABLE = "enhanced" THEN "scan" ELSE "basic"
    /\ UNCHANGED <<SCANNER_AVAILABLE, scan_outcome, page, receipt_data,
                   scanner, extractor, store, geometry>>

\* line 64: scan_receipt; what it raises goes to the except of lines 181-183
EnhancedScan ==
    /\ ocr_pc = "scan"
    /\ IF scan_outcome.raises
       THEN /\ receipt_data' = Some(Error(scan_outcome.exc))
            /\ ocr_pc' = "returned"
       ELSE /\ receipt_data' = receipt_data
            /\ ocr_pc' = "check"
    /\ UNCHANGED <<SCANNER_AVAILABLE, scan_outcome, page, scanner, extractor, store, geometry>>

\* lines 66-86: `result and 'extracted_data' in result`, then the formatted
\* result, or the warning and the basic processing; an exception of the test
\* goes to the except of lines 181-183
CheckResult ==
    /\ ocr_pc = "check"
    /\ LET value == scan_outcome.value
           test == KeyIn("extracted_data", value)
       IN IF ~TruthOf(value) THEN /\ ocr_pc' = "basic"
                                  /\ receipt_data' = receipt_data
          ELSE IF test.raises THEN /\ receipt_data' = Some(Error(test.exc))
                                   /\ ocr_pc' = "returned"
          ELSE IF test.holds THEN /\ receipt_data' = Some(FormattedResult(value.fields))
                                  /\ ocr_pc' = "returned"
          ELSE /\ ocr_pc' = "basic"
               /\ receipt_data' = receipt_data
    /\ UNCHANGED <<SCANNER_AVAILABLE, scan_outcome, page, scanner, extractor, store, geometry>>

\* lines 88-179: cv2.imread, the preprocessing, pytesseract and the patterns
BasicOcr ==
    /\ ocr_pc = "basic"
    /\ receipt_data' =
          IF page.kind = "unreadable" THEN Some(Error("Could not load image"))
          ELSE IF page.kind = "raises" THEN Some(Error("cv2.error"))
          ELSE Some(BasicReceiptData(page.text))
    /\ ocr_pc' = "returned"
    /\ UNCHANGED <<SCANNER_AVAILABLE, scan_outcome, page, scanner, extractor, store, geometry>>

NextApp ==
    \/ ChooseScanner
    \/ EnhancedScan
    \/ CheckResult
    \/ BasicOcr

SpecApp == InitApp /\ [][NextApp]_vars

\* C29: when the enhanced scanner is available and its scan returned, and the
\* basic processing can read the image, process_ocr returns the processed
\* result of the basic processing (raw_text, lines, total, date), not an
\* error.
C29_UnusableScanFallsBack ==
    (/\ ocr_pc = "returned"
     /\ SCANNER_AVAILABLE = "enhanced"
     /\ ~scan_outcome.raises
     /\ page.kind = "text")
    => /\ "error" \notin DOMAIN Val(receipt_data)
       /\ Val(receipt_data) = BasicReceiptData(page.text)


(***************************************************************************)
(* _order_points (src/enhanced_scanner.py).  A point is <<x, y>>; pts is   *)
(* the 4 x 2 array _four_point_transform passes on, the four vertices of   *)
(* the contour _perspective_correction approximated.                       *)
(***************************************************************************)

\* the pixel coordinates of the corners are 0..MaxCoord
MaxCoord == 2

Points == (0..MaxCoord) \X (0..MaxCoord)

\* np.argmin: the first index of the least entry
argmin(v) ==
    CHOOSE i \in 1..Len(v) :
        /\ \A j \in 1..Len(v) : v[i] <= v[j]
        /\ \A j \in 1..(i - 1) : v[j] > v[i]

\* np.argmax: the first index of the greatest entry
argmax(v) ==
    CHOOSE i \in 1..Len(v) :
        /\ \A j \in 1..Len(v) : v[i] >= v[j]
        /\ \A j \in 1..(i - 1) : v[j] < v[i]

\* lines 411-427; np.diff along axis 1 is y - x
order_points(p) ==
    LET s == [i \in 1..4 |-> p[i][1] + p[i][2]]
        diff == [i \in 1..4 |-> p[i][2] - p[i][1]]
    IN  <<p[argmin(s)], p[argmin(diff)], p[argmax(s)], p[argmax(diff)]>>

\* the turn at b on the way from a over b to c
Turn(a, b, c) == (b[1] - a[1]) * (c[2] - b[2]) - (b[2] - a[2]) * (c[1] - b[1])

\* the vertices of a convex quadrilateral, in the order of its boundary
ConvexQuad(p) ==
    LET turn == [i \in 1..4 |-> Turn(p[i], p[(i % 4) + 1], p[((i + 1) % 4) + 1])]
    IN  \/ \A i \in 1..4 : turn[i] > 0
        \/ \A i \in 1..4 : turn[i] < 0

\* lines 345-350: a contour that approxPolyDP reduced to four points; the
\* outline of a receipt is a convex quadrilateral in any rotation
InitOrder ==
    /\ pts \in {Some(p) : p \in {q \in [1..4 -> Points] : ConvexQuad(q)}}
    /\ rect = None
    /\ env = [h |-> 1, w |-> 1, persp |-> "none", dflt |-> Raises, anomaly |-> NoAnomaly]
    /\ easyocr_available = FALSE
    /\ pc = "off"
    /\ fast_mode = FALSE
    /\ save_processed = FALSE
    /\ image = None
    /\ processed_images = << >>
    /\ ocr_results = << >>
    /\ best_result = None
    /\ attempted = << >>
    /\ history = [m \in Modes |-> None]
    /\ StoreIdle
    /\ ExtractorIdle
    /\ CallerIdle

\* line 385: rect = self._order_points(pts)
OrderPoints ==
    /\ pts # None
    /\ rect = None
    /\ rect' = Some(order_points(Val(pts)))
    /\ UNCHANGED <<pts, scanner, extractor, store, caller>>

NextOrder == OrderPoints

SpecOrder == InitOrder /\ [][NextOrder]_vars

\* C30: for every four distinct corner points _order_points returns an array
\* in which each of the four input points appears exactly once, so that
\* no corner is repeated in what the perspective transform receives.
C30_EachCornerOnce ==
    rect # None =>
        \A i \in 1..4 : Cardinality({k \in 1..4 : Val(rect)[k] = Val(pts)[i]}) = 1
==============================================================================
